---- MODULE Spec2Model ----
(***************************************************************************)
(* A model of imessage_extractor: the timestamp converter, the two         *)
(* attributed-body decoders (TextParser and IMessageDatabase) and the      *)
(* tabular and hierarchical exports of IMessageDatabase.                   *)
(*                                                                         *)
(* Representation of Python values                                         *)
(*   None            the empty tuple <<>>                                  *)
(*   int             a pair <<hi, lo>> standing for hi * 10^9 + lo with    *)
(*                   0 <= lo < 10^9 (Python ints are unbounded, TLC's are  *)
(*                   32 bits wide, and the code compares against 10^12)    *)
(*   unix timestamp  a triple <<hi, lo, nano>>: hi * 10^9 + lo seconds and *)
(*                   nano / 10^9 of a second, exact (float rounding of     *)
(*                   ts / 1e9 is not modelled)                             *)
(*   str             a tuple of code points                                *)
(***************************************************************************)
EXTENDS Integers, Sequences, FiniteSets, TLC

VARIABLES
    pc,         \* position of the run: "start", then one value per step
    zone,       \* the local time zone of the process (the environment)
    ts,         \* apple_to_unix: the raw date
    unix_ts,    \* apple_to_unix: the result
    iso,        \* format_timestamp: the result
    attributed_body,  \* the attributedBody blob handed to a decoder (bytes)
    loaded,     \* what plistlib.loads / typedstream.unarchive_from_data
                \* gives for the blob (the libraries are outside the repository)
    parser_out, \* outcome of TextParser.extract_text_from_attributed_body
    db_out,     \* outcome of IMessageDatabase._extract_text_from_attributed_body
    chat,       \* table chat: the rowids
    message,    \* table message: rowid -> [date, text, attributedBody]
    chat_message_join,        \* table chat_message_join: <<chat_id, message_id>>
    message_attachment_join,  \* table message_attachment_join:
                              \* <<message_id, attachment_id>>
    handle,     \* table handle: rowid -> id
    chat_handle_join,         \* table chat_handle_join: <<chat_id, handle_id>>
    csv_out,    \* export_chat_to_csv: its outcome and the file
    json_out,   \* export_all_chats_to_json: its outcome and the file
    connections,  \* get_connection: the connections opened, and those closed
    find_out,   \* find_chat_by_participant: its outcome
    command_out,  \* a command of commands.py: its outcome
    chat_data,  \* HTMLExporter.export_chat: the keys of the chat dict
    html_messages,  \* HTMLExporter.export_chat: the messages
    disk,       \* the files that exist before the HTML export
    html_out    \* HTMLExporter.export_chat: its outcome and what it created

vars == <<pc, zone, ts, unix_ts, iso, attributed_body, loaded, parser_out, db_out,
          chat, message, chat_message_join, message_attachment_join,
          handle, chat_handle_join, csv_out, json_out,
          connections, find_out, command_out,
          chat_data, html_messages, disk, html_out>>

None == <<>>

(***************************************************************************)
(* Two-limb integers.                                                      *)
(***************************************************************************)
\* 1e9, the divisor of database.py:57, and the limb base of the model
Base == 1000000000

\* 978,307,200: seconds from the Unix epoch to the Apple epoch
APPLE_EPOCH_OFFSET == 978307200

\* 10**12, the threshold of database.py:56
NANOSECONDS_THRESHOLD == <<1000, 0>>

Big(hi, lo) == <<hi + (lo \div Base), lo % Base>>

BigLess(a, b) == a[1] < b[1] \/ (a[1] = b[1] /\ a[2] < b[2])

BigLeq(a, b) == a = b \/ BigLess(a, b)

\* a + k for a small integer k (|k| < 10^9)
BigAddInt(a, k) == Big(a[1], a[2] + k)

\* a - b
BigSub(a, b) == Big(a[1] - b[1], a[2] - b[2])

(***************************************************************************)
(* IMessageDatabase.apple_to_unix                                          *)
(***************************************************************************)
\* apple_to_unix as it would be with >= for >: 10^12 read as nanoseconds
apple_to_unix_geq(t) ==
    IF t = None THEN None
    ELSE IF BigLeq(NANOSECONDS_THRESHOLD, t)
         THEN LET s == Big(0, t[1] + APPLE_EPOCH_OFFSET) IN <<s[1], s[2], t[2]>>
         ELSE LET s == BigAddInt(t, APPLE_EPOCH_OFFSET) IN <<s[1], s[2], 0>>

\* apple_to_unix as it would be with abs(ts) > 10**12: the values below
\* -10^12 read as nanoseconds too
apple_to_unix_abs(t) ==
    IF t = None THEN None
    ELSE IF BigLess(NANOSECONDS_THRESHOLD, t) \/ BigLess(t, BigSub(<<0, 0>>, NANOSECONDS_THRESHOLD))
         THEN LET s == Big(0, t[1] + APPLE_EPOCH_OFFSET) IN <<s[1], s[2], t[2]>>
         ELSE LET s == BigAddInt(t, APPLE_EPOCH_OFFSET) IN <<s[1], s[2], 0>>

apple_to_unix(t) ==
    IF t = None THEN None
    ELSE IF BigLess(NANOSECONDS_THRESHOLD, t)
         \* ts / 1e9 + 978307200: t[1] whole seconds and t[2] nanoseconds
         THEN LET s == Big(0, t[1] + APPLE_EPOCH_OFFSET) IN <<s[1], s[2], t[2]>>
         \* ts + 978307200
         ELSE LET s == BigAddInt(t, APPLE_EPOCH_OFFSET) IN <<s[1], s[2], 0>>

(***************************************************************************)
(* IMessageDatabase.format_timestamp                                       *)
(*                                                                         *)
(* The ISO string is modelled by the fields that decide its text and its   *)
(* order as a string: the local wall-clock second <<hi, lo>>, the          *)
(* microsecond and the UTC offset in seconds.  "" is the empty tuple.      *)
(* datetime.fromtimestamp raises ValueError outside the years 1..9999.     *)
(***************************************************************************)
Zones == {"UTC", "Europe/London"}

\* British Summer Time 2023: 2023-03-26T01:00Z to 2023-10-29T01:00Z
BST_START == <<1, 679792400>>
BST_END == <<1, 698541200>>

\* .astimezone(): the offset the zone has at the instant u.  The London rule
\* is the one of 2023; outside 2023 the model only uses winter dates.
LocalOffset(z, u) ==
    IF z = "Europe/London" /\ BigLeq(BST_START, u) /\ BigLess(u, BST_END)
    THEN 3600 ELSE 0

\* 0001-01-01T00:00:00Z and 9999-12-31T23:59:59Z
MIN_UNIX == <<-63, 864403200>>
MAX_UNIX == <<253, 402300799>>

ValueError == <<"ValueError">>

format_timestamp(z, u) ==
    IF u = None THEN <<>>
    ELSE LET \* fromtimestamp rounds to the nearest microsecond
             us   == (u[3] + 500) \div 1000
             sec  == IF us = 1000000 THEN BigAddInt(<<u[1], u[2]>>, 1)
                                      ELSE <<u[1], u[2]>>
             off  == LocalOffset(z, sec)
             wall == BigAddInt(sec, off)
         IN  IF BigLess(sec, MIN_UNIX) \/ BigLess(MAX_UNIX, sec)
             THEN ValueError
             ELSE <<wall[1], wall[2], us % 1000000, off>>

(***************************************************************************)
(* Python str operations on tuples of code points.                         *)
(***************************************************************************)
decoderVars == <<attributed_body, loaded, parser_out, db_out>>

timeVars == <<ts, unix_ts, iso>>

storeVars == <<chat, message, chat_message_join, message_attachment_join,
               handle, chat_handle_join>>

exportVars == <<csv_out, json_out>>

runVars == <<connections, find_out, command_out>>

htmlVars == <<chat_data, html_messages, disk, html_out>>

\* an export that has not run
NotExported == [status |-> "none"]

\* no connection opened yet; peak is the most that were open at one time
NoConnections == [opened |-> 0, closed |-> 0, peak |-> 0]

\* nothing has run
NotRun ==
    /\ csv_out = NotExported
    /\ json_out = NotExported
    /\ connections = NoConnections
    /\ find_out = NotExported
    /\ command_out = NotExported
    /\ html_out = NotExported

\* no HTML export is set up
NoHtml ==
    /\ chat_data = {}
    /\ html_messages = <<>>
    /\ disk = {}

\* no store: the decoders and the converter run without one
EmptyStore ==
    /\ chat = {}
    /\ message = <<>>
    /\ chat_message_join = {}
    /\ message_attachment_join = {}
    /\ handle = <<>>
    /\ chat_handle_join = {}
    /\ NoHtml
    /\ NotRun

\* constants.py:68-71: U+FFFC, U+200A, U+200B, U+200C
OBJECT_REPLACEMENT_CHAR == 65532
HAIR_SPACE == 8202
ZERO_WIDTH_SPACE == 8203
ZERO_WIDTH_NON_JOINER == 8204

\* s.startswith(p), s.endswith(p)
StartsWith(s, p) == Len(p) <= Len(s) /\ SubSeq(s, 1, Len(p)) = p

EndsWith(s, p) == Len(p) <= Len(s) /\ SubSeq(s, Len(s) - Len(p) + 1, Len(s)) = p

\* sub in s
Contains(s, sub) ==
    \E i \in 1..(Len(s) - Len(sub) + 1) : SubSeq(s, i, i + Len(sub) - 1) = sub

\* s.find(c) and s.rfind(c) for a character that occurs in s, 1-based
Find(s, c) == CHOOSE i \in 1..Len(s) : s[i] = c /\ \A j \in 1..(i - 1) : s[j] # c

RFind(s, c) == CHOOSE i \in 1..Len(s) : s[i] = c /\ \A j \in (i + 1)..Len(s) : s[j] # c

\* s.replace(old, new) for a non-empty old: the non-overlapping
\* occurrences, left to right.  Each step copies s up to the leftmost
\* occurrence, puts new for it and goes on behind it.
RECURSIVE Replace(_, _, _)
Replace(s, old, new) ==
    LET found == { i \in 1..(Len(s) - Len(old) + 1) :
                     SubSeq(s, i, i + Len(old) - 1) = old }
    IN  IF found = {} THEN s
        ELSE LET k == CHOOSE i \in found : \A j \in found : i <= j
             IN  SubSeq(s, 1, k - 1) \o new
                 \o Replace(SubSeq(s, k + Len(old), Len(s)), old, new)

(***************************************************************************)
(* bytes.decode('utf-8', errors='ignore'): every well-formed sequence      *)
(* gives its code point, every other byte is dropped.                      *)
(***************************************************************************)
IsCont(b) == 128 <= b /\ b <= 191

\* the length of the well-formed UTF-8 sequence at the head of b, or 0
Utf8SeqLen(b) ==
    LET n  == Len(b)
        b1 == b[1]
    IN  IF b1 < 128 THEN 1
        ELSE IF 194 <= b1 /\ b1 <= 223 /\ n >= 2 /\ IsCont(b[2]) THEN 2
        ELSE IF 224 <= b1 /\ b1 <= 239 /\ n >= 3 /\ IsCont(b[2]) /\ IsCont(b[3])
                /\ (b1 = 224 => b[2] >= 160) /\ (b1 = 237 => b[2] <= 159) THEN 3
        ELSE IF 240 <= b1 /\ b1 <= 244 /\ n >= 4
                /\ IsCont(b[2]) /\ IsCont(b[3]) /\ IsCont(b[4])
                /\ (b1 = 240 => b[2] >= 144) /\ (b1 = 244 => b[2] <= 143) THEN 4
        ELSE 0

Utf8CodePoint(b, k) ==
    CASE k = 1 -> b[1]
      [] k = 2 -> (b[1] - 192) * 64 + (b[2] - 128)
      [] k = 3 -> (b[1] - 224) * 4096 + (b[2] - 128) * 64 + (b[3] - 128)
      [] k = 4 -> (b[1] - 240) * 262144 + (b[2] - 128) * 4096
                  + (b[3] - 128) * 64 + (b[4] - 128)

\* A lead byte is never a continuation byte, so a well-formed sequence
\* starts at every non-continuation byte that heads one, and only there.
Utf8DecodeIgnore(b) ==
    LET n      == Len(b)
        At(i)  == SubSeq(b, i, IF i + 3 < n THEN i + 3 ELSE n)
        starts == SelectSeq([i \in 1..n |-> i],
                            LAMBDA i : ~IsCont(b[i]) /\ Utf8SeqLen(At(i)) > 0)
    IN  [k \in 1..Len(starts) |-> Utf8CodePoint(At(starts[k]), Utf8SeqLen(At(starts[k])))]

(***************************************************************************)
(* Python objects as the decoders see them: [ty, v] with ty one of "int",  *)
(* "str", "list", "dict" (v a function on str keys) and "UID"              *)
(* (plistlib.UID, what a keyed archive's own references load as).          *)
(***************************************************************************)
PyInt(i) == [ty |-> "int", v |-> i]
PyStr(s) == [ty |-> "str", v |-> s]
PyList(l) == [ty |-> "list", v |-> l]
PyDict(d) == [ty |-> "dict", v |-> d]
PyUID(i) == [ty |-> "UID", v |-> i]

\* an exception raised by a step
Raised == [ty |-> "raised", v |-> 0]

\* the library call has not run, or raised (plistlib.InvalidFileException,
\* a typedstream parse error)
NotLoaded == [ty |-> "none", v |-> 0]
LoadError == [ty |-> "error", v |-> 0]

\* a decoder's outcome: a returned string or a raised TextExtractionError
NoOutcome == [kind |-> "none", text |-> <<>>]
Return(s) == [kind |-> "return", text |-> s]
Raise == [kind |-> "raise", text |-> <<>>]

K_OBJECTS == <<36, 111, 98, 106, 101, 99, 116, 115>>      \* "$objects"
K_TOP == <<36, 116, 111, 112>>                            \* "$top"
K_ROOT == <<114, 111, 111, 116>>                          \* "root"
K_CFUID == <<67, 70, 36, 85, 73, 68>>                     \* "CF$UID"
K_NSSTRING == <<78, 83, 46, 115, 116, 114, 105, 110, 103>> \* "NS.string"
BPLIST_MAGIC == <<98, 112, 108, 105, 115, 116, 48, 48>>   \* b'bplist00'

\* the types `key in c` accepts for a str key; for any other, TypeError
SupportsIn(c) == c.ty \in {"dict", "list", "str"}

\* key in c
PyIn(key, c) ==
    CASE c.ty = "dict" -> key \in DOMAIN c.v
      [] c.ty = "list" -> \E i \in 1..Len(c.v) : c.v[i] = PyStr(key)
      [] c.ty = "str"  -> Contains(c.v, key)

\* c[key] for a str key: the value, or KeyError / TypeError
PyGetKey(c, key) ==
    IF c.ty = "dict" /\ key \in DOMAIN c.v THEN c.v[key] ELSE Raised

\* len(c), for the types that have one
HasLen(c) == c.ty \in {"dict", "list", "str"}

PyLen(c) == IF c.ty = "dict" THEN Cardinality(DOMAIN c.v) ELSE Len(c.v)

\* c[i] for an int i: a negative index counts from the end, IndexError
\* outside -len..len-1, KeyError on a dict (its keys are strings)
PyIndex(c, i) ==
    LET n == PyLen(c)
        k == IF i < 0 THEN n + i + 1 ELSE i + 1
    IN  IF c.ty = "dict" \/ k < 1 \/ k > n THEN Raised
        ELSE IF c.ty = "str" THEN PyStr(<<c.v[k]>>)
        ELSE c.v[k]

(***************************************************************************)
(* TextParser (parsers.py)                                                 *)
(***************************************************************************)
\* TextParser._convert_escaped_characters
_convert_escaped_characters(text) ==
    LET t1 == Replace(text, <<92, 110>>, <<10>>)                 \* '\\n'
        t2 == Replace(t1, <<92, 116>>, <<9>>)                    \* '\\t'
        t3 == Replace(t2, <<92, 114>>, <<13>>)                   \* '\\r'
        t4 == Replace(t3, <<92, 117, 50, 48, 48, 97>>, <<HAIR_SPACE>>)
        t5 == Replace(t4, <<92, 117, 50, 48, 48, 98>>, <<ZERO_WIDTH_SPACE>>)
    IN  Replace(t5, <<92, 117, 50, 48, 48, 99>>, <<ZERO_WIDTH_NON_JOINER>>)

NS_STRING_OPEN == <<78, 83, 83, 116, 114, 105, 110, 103, 40>>   \* 'NSString('
NS_MUTABLE_STRING_OPEN ==                                \* 'NSMutableString('
    <<78, 83, 77, 117, 116, 97, 98, 108, 101, 83, 116, 114, 105, 110, 103, 40>>

\* a slice s[i:j] of 0-based Python indices i <= j
Slice(s, i, j) == SubSeq(s, i + 1, j)

\* _clean_string_object as it would be with find(')') for rfind(')'): the
\* first ')' ends the content
_clean_string_object_first_paren(text_str) ==
    IF (StartsWith(text_str, NS_STRING_OPEN) \/ StartsWith(text_str, NS_MUTABLE_STRING_OPEN))
       /\ EndsWith(text_str, <<41>>)
    THEN LET inner_content == Slice(text_str, Find(text_str, 40), Find(text_str, 41) - 1)
         IN  IF (StartsWith(inner_content, <<34>>) /\ EndsWith(inner_content, <<34>>))
                \/ (StartsWith(inner_content, <<39>>) /\ EndsWith(inner_content, <<39>>))
             THEN Slice(inner_content, 1, Len(inner_content) - 1)
             ELSE inner_content
    ELSE text_str

\* TextParser._clean_string_object
_clean_string_object(text_str) ==
    IF (StartsWith(text_str, NS_STRING_OPEN) \/ StartsWith(text_str, NS_MUTABLE_STRING_OPEN))
       /\ EndsWith(text_str, <<41>>)
    THEN \* text_str[text_str.find('(')+1 : text_str.rfind(')')]
         LET inner_content == Slice(text_str, Find(text_str, 40), RFind(text_str, 41) - 1)
         IN  IF (StartsWith(inner_content, <<34>>) /\ EndsWith(inner_content, <<34>>))
                \/ (StartsWith(inner_content, <<39>>) /\ EndsWith(inner_content, <<39>>))
             THEN Slice(inner_content, 1, Len(inner_content) - 1)   \* [1:-1]
             ELSE inner_content
    ELSE text_str

\* lines 50-71: the keyed archive that plistlib.loads returned
KeyedArchiveText(plist_data) ==
    IF ~SupportsIn(plist_data) THEN Raise
    ELSE IF ~(PyIn(K_OBJECTS, plist_data) /\ PyIn(K_TOP, plist_data)) THEN Return(<<>>)
    ELSE IF PyGetKey(plist_data, K_OBJECTS) = Raised THEN Raise
    ELSE
    LET objects == PyGetKey(plist_data, K_OBJECTS)
        top     == PyGetKey(plist_data, K_TOP)
    IN
    IF ~SupportsIn(top) THEN Raise
    ELSE IF ~PyIn(K_ROOT, top) THEN Return(<<>>)
    ELSE IF PyGetKey(top, K_ROOT) = Raised THEN Raise
    ELSE
    LET root_ref == PyGetKey(top, K_ROOT) IN
    IF ~(root_ref.ty = "dict" /\ PyIn(K_CFUID, root_ref)) THEN Return(<<>>)
    ELSE
    LET root_uid == PyGetKey(root_ref, K_CFUID) IN
    \* root_uid < len(objects): TypeError unless both sides are numbers
    IF ~(root_uid.ty = "int" /\ HasLen(objects)) THEN Raise
    ELSE IF ~(root_uid.v < PyLen(objects)) THEN Return(<<>>)
    ELSE
    LET root_obj == PyIndex(objects, root_uid.v) IN
    IF root_obj = Raised THEN Raise
    ELSE IF ~(root_obj.ty = "dict" /\ PyIn(K_NSSTRING, root_obj)) THEN Return(<<>>)
    ELSE
    LET string_ref == PyGetKey(root_obj, K_NSSTRING) IN
    IF ~(string_ref.ty = "dict" /\ PyIn(K_CFUID, string_ref)) THEN Return(<<>>)
    ELSE
    LET string_uid == PyGetKey(string_ref, K_CFUID) IN
    IF string_uid.ty # "int" THEN Raise
    ELSE IF ~(string_uid.v < PyLen(objects)) THEN Return(<<>>)
    ELSE
    LET string_obj == PyIndex(objects, string_uid.v) IN
    IF string_obj = Raised THEN Raise
    ELSE IF string_obj.ty # "str" THEN Return(<<>>)
    ELSE Return(Replace(_convert_escaped_characters(string_obj.v),
                        <<OBJECT_REPLACEMENT_CHAR>>, <<>>))

(***************************************************************************)
(* What typedstream.unarchive_from_data returned: [ty |-> "stream",        *)
(* hasContents, contents], contents a tuple of members                     *)
(* [hasValue, value, repr]: repr is str(member), and value is             *)
(*   [ty |-> "attr", v]   an object with a .string attribute v             *)
(*   [ty |-> "bytes", v]  bytes                                            *)
(*   [ty |-> "str", v]    a str                                            *)
(*   [ty |-> "obj", v]    any other object, v its str()                    *)
(***************************************************************************)
\* lines 80-106
TypedStreamText(stream) ==
    IF ~(stream.hasContents /\ stream.contents # <<>>) THEN Return(<<>>)
    ELSE
    LET first_content == stream.contents[1] IN
    IF first_content.hasValue
    THEN LET value == first_content.value
             text  == IF value.ty = "bytes" THEN Utf8DecodeIgnore(value.v) ELSE value.v
             text_str == _convert_escaped_characters(_clean_string_object(text))
         IN  Return(Replace(text_str, <<OBJECT_REPLACEMENT_CHAR>>, <<>>))
    ELSE Return(Replace(first_content.repr, <<OBJECT_REPLACEMENT_CHAR>>, <<>>))

\* TextParser.extract_text_from_attributed_body: body is the blob, lib what
\* the library call on it gives.  Every exception inside the try block
\* leaves as TextExtractionError (lines 107-108).
extract_text_from_attributed_body(body, lib) ==
    IF body = <<>> THEN Return(<<>>)
    ELSE IF lib = LoadError THEN Raise
    ELSE IF StartsWith(body, BPLIST_MAGIC) THEN KeyedArchiveText(lib)
    ELSE TypedStreamText(lib)

(***************************************************************************)
(* IMessageDatabase._extract_text_from_attributed_body (database.py)       *)
(***************************************************************************)
\* str.isspace, str.isalpha and str.isalnum, exact up to U+00FF and on the
\* spaces above; the blobs of the model decode to no letter above U+00FF
IsSpace(c) ==
    \/ (9 <= c /\ c <= 13) \/ (28 <= c /\ c <= 32) \/ c = 133 \/ c = 160
    \/ c = 5760 \/ (8192 <= c /\ c <= 8202) \/ c = 8232 \/ c = 8233
    \/ c = 8239 \/ c = 8287 \/ c = 12288

IsAlpha(c) ==
    \/ (65 <= c /\ c <= 90) \/ (97 <= c /\ c <= 122)
    \/ c = 170 \/ c = 181 \/ c = 186
    \/ (192 <= c /\ c <= 214) \/ (216 <= c /\ c <= 246) \/ (248 <= c /\ c <= 255)

IsAlnum(c) ==
    \/ IsAlpha(c) \/ (48 <= c /\ c <= 57)
    \/ c = 178 \/ c = 179 \/ c = 185 \/ (188 <= c /\ c <= 190)

\* '.,!?;:-()"\''
PRINTABLE_PUNCTUATION == {46, 44, 33, 63, 59, 58, 45, 40, 41, 34, 39}

\* 'streamtyped', 'NSAttributedString', 'NSObject', 'NSString', '__kIM', 'NSNumber'
BINARY_MARKERS ==
    { <<115, 116, 114, 101, 97, 109, 116, 121, 112, 101, 100>>,
      <<78, 83, 65, 116, 116, 114, 105, 98, 117, 116, 101, 100, 83, 116, 114, 105, 110, 103>>,
      <<78, 83, 79, 98, 106, 101, 99, 116>>,
      <<78, 83, 83, 116, 114, 105, 110, 103>>,
      <<95, 95, 107, 73, 77>>,
      <<78, 83, 78, 117, 109, 98, 101, 114>> }

\* s.split(sep) for a one-character separator
SplitOn(s, sep) ==
    LET n    == Len(s)
        cuts == SelectSeq([i \in 1..n |-> i], LAMBDA i : s[i] = sep)
        From(k) == IF k = 1 THEN 1 ELSE cuts[k - 1] + 1
        To(k)   == IF k = Len(cuts) + 1 THEN n ELSE cuts[k] - 1
    IN  [k \in 1..(Len(cuts) + 1) |-> SubSeq(s, From(k), To(k))]

\* s.strip()
RECURSIVE LStrip(_)
LStrip(s) == IF s # <<>> /\ IsSpace(s[1]) THEN LStrip(Tail(s)) ELSE s

RECURSIVE RStrip(_)
RStrip(s) ==
    IF s # <<>> /\ IsSpace(s[Len(s)]) THEN RStrip(SubSeq(s, 1, Len(s) - 1)) ELSE s

Strip(s) == RStrip(LStrip(s))

\* len(s.split()): the number of runs of non-space characters
WordCount(s) ==
    Cardinality({ i \in 1..Len(s) : ~IsSpace(s[i]) /\ (i = 1 \/ IsSpace(s[i - 1])) })

\* s.split('iI')[0]
BeforeArtifact(s) ==
    IF Contains(s, <<105, 73>>)
    THEN LET k == CHOOSE i \in 1..(Len(s) - 1) :
                      /\ SubSeq(s, i, i + 1) = <<105, 73>>
                      /\ \A j \in 1..(i - 1) : SubSeq(s, j, j + 1) # <<105, 73>>
         IN  SubSeq(s, 1, k - 1)
    ELSE s

\* line 371-372: the part without its control characters, stripped
CleanPart(part) ==
    Strip(SelectSeq(part, LAMBDA c : c >= 32 \/ c \in {10, 13, 9, 32}))

\* lines 375-380: the part looks like a message
LooksLikeMessage(clean_part) ==
    /\ 10 <= Len(clean_part) /\ Len(clean_part) <= 1000
    \* printable_ratio > 0.7
    /\ 10 * Cardinality({ i \in 1..Len(clean_part) :
                            \/ IsAlnum(clean_part[i]) \/ IsSpace(clean_part[i])
                            \/ clean_part[i] \in PRINTABLE_PUNCTUATION })
         > 7 * Len(clean_part)
    /\ \A marker \in BINARY_MARKERS : ~Contains(clean_part, marker)
    /\ \/ \E i \in 1..Len(clean_part) : clean_part[i] \in {46, 33, 63}
       \/ WordCount(clean_part) > 3

\* lines 381-384: the part cut at the first 'iI' and stripped
Trimmed(part) == Strip(BeforeArtifact(CleanPart(part)))

\* lines 369-387: the first part that is accepted, or ""
FirstMessage(parts) ==
    LET accepted == { k \in 1..Len(parts) :
                        /\ LooksLikeMessage(CleanPart(parts[k]))
                        /\ Trimmed(parts[k]) # <<>>
                        /\ IsAlpha(Trimmed(parts[k])[1]) }
    IN  IF accepted = {} THEN <<>>
        ELSE Trimmed(parts[CHOOSE k \in accepted : \A j \in accepted : k <= j])

\* IMessageDatabase._extract_text_from_attributed_body: no step of the try
\* block can raise on bytes, and the except clause returns "" anyway
_extract_text_from_attributed_body(body) ==
    IF body = <<>> THEN Return(<<>>)
    ELSE Return(FirstMessage(SplitOn(Utf8DecodeIgnore(body), 0)))

(***************************************************************************)
(* The keyed archive of tests/test_attributed_body.py:                     *)
(* _sample_attributed_body, with the string object and the references      *)
(* variable.  SampleArchive is the plist, SampleBlob its bytes as          *)
(* plistlib.dumps(plist, fmt=FMT_BINARY) lays them out.                    *)
(***************************************************************************)
K_ARCHIVER == <<36, 97, 114, 99, 104, 105, 118, 101, 114>>      \* "$archiver"
K_VERSION == <<36, 118, 101, 114, 115, 105, 111, 110>>            \* "$version"
K_NSATTRIBUTES == <<78, 83, 46, 97, 116, 116, 114, 105, 98, 117, 116, 101, 115>>  \* "NS.attributes"
K_CLASS == <<36, 99, 108, 97, 115, 115>>                      \* "$class"
K_CLASSES == <<36, 99, 108, 97, 115, 115, 101, 115>>             \* "$classes"
K_CLASSNAME == <<36, 99, 108, 97, 115, 115, 110, 97, 109, 101>>  \* "$classname"
S_NULL == <<36, 110, 117, 108, 108>>                           \* "$null"
S_NSKEYEDARCHIVER == <<78, 83, 75, 101, 121, 101, 100, 65, 114, 99, 104, 105, 118, 101, 114>>
S_NSATTRIBUTEDSTRING == <<78, 83, 65, 116, 116, 114, 105, 98, 117, 116, 101, 100, 83, 116, 114, 105, 110, 103>>
S_NSOBJECT == <<78, 83, 79, 98, 106, 101, 99, 116>>                  \* "NSObject"

\* {"CF$UID": i}
Ref(i) == PyDict(K_CFUID :> PyInt(i))

\* the NSAttributedString object: {"NS.string": string_ref, ...}
RootObject(string_ref) ==
    PyDict(K_NSSTRING :> string_ref @@ K_NSATTRIBUTES :> Ref(0) @@ K_CLASS :> Ref(3))

ClassObject ==
    PyDict(K_CLASSES :> PyList(<<PyStr(S_NSATTRIBUTEDSTRING), PyStr(S_NSOBJECT)>>)
           @@ K_CLASSNAME :> PyStr(S_NSATTRIBUTEDSTRING))

\* "$objects": ["$null", root_obj, string_obj, class]
ObjectArray(root_obj, string_obj) ==
    PyList(<<PyStr(S_NULL), root_obj, string_obj, ClassObject>>)

Archive(top, objects) ==
    PyDict(K_ARCHIVER :> PyStr(S_NSKEYEDARCHIVER) @@ K_VERSION :> PyInt(100000)
           @@ K_TOP :> top @@ K_OBJECTS :> objects)

SampleArchive(str) ==
    Archive(PyDict(K_ROOT :> Ref(1)), ObjectArray(RootObject(Ref(2)), PyStr(str)))

\* bytes 0..138: the header and the 19 objects before the string object
SAMPLE_HEAD ==
    <<98, 112, 108, 105, 115, 116, 48, 48, 212, 1, 2, 3, 4, 5, 6, 26, 30, 89,
      36, 97, 114, 99, 104, 105, 118, 101, 114, 88, 36, 111, 98, 106, 101, 99,
      116, 115, 84, 36, 116, 111, 112, 88, 36, 118, 101, 114, 115, 105, 111,
      110, 95, 16, 15, 78, 83, 75, 101, 121, 101, 100, 65, 114, 99, 104, 105,
      118, 101, 114, 164, 7, 8, 19, 20, 85, 36, 110, 117, 108, 108, 211, 9, 10,
      11, 12, 15, 17, 86, 36, 99, 108, 97, 115, 115, 93, 78, 83, 46, 97, 116,
      116, 114, 105, 98, 117, 116, 101, 115, 89, 78, 83, 46, 115, 116, 114,
      105, 110, 103, 209, 13, 14, 86, 67, 70, 36, 85, 73, 68, 16, 3, 209, 13,
      16, 16, 0, 209, 13, 18, 16, 2>>

\* the 11 objects after the string object
SAMPLE_TAIL ==
    <<210, 21, 22, 23, 24, 88, 36, 99, 108, 97, 115, 115, 101, 115, 90, 36, 99,
      108, 97, 115, 115, 110, 97, 109, 101, 162, 24, 25, 95, 16, 18, 78, 83,
      65, 116, 116, 114, 105, 98, 117, 116, 101, 100, 83, 116, 114, 105, 110,
      103, 88, 78, 83, 79, 98, 106, 101, 99, 116, 209, 27, 28, 84, 114, 111,
      111, 116, 209, 13, 29, 16, 1, 18, 0, 1, 134, 160>>

\* the offset table for an empty string object; the string object is the
\* 20th entry and the later entries move by its encoded length
SAMPLE_OFFSETS ==
    <<8, 17, 27, 36, 41, 50, 68, 73, 79, 86, 93, 107, 117, 120, 127, 129, 132,
      134, 137, 139, 139, 144, 153, 164, 167, 188, 197, 200, 205, 208, 210>>

\* a str object: ASCII as is, anything else as UTF-16BE (BMP only)
RECURSIVE Utf16BE(_)
Utf16BE(str) ==
    IF str = <<>> THEN <<>>
    ELSE <<str[1] \div 256, str[1] % 256>> \o Utf16BE(Tail(str))

EncodeString(str) ==
    LET n == Len(str) IN
    IF \A i \in 1..n : str[i] < 128
    THEN (IF n < 15 THEN <<80 + n>> ELSE <<95, 16, n>>) \o str
    ELSE (IF n < 15 THEN <<96 + n>> ELSE <<111, 16, n>>) \o Utf16BE(str)

\* the binary plist, for an encoded string of at most 40 bytes (one-byte
\* offsets)
SampleBlob(str) ==
    LET enc  == EncodeString(str)
        body == SAMPLE_HEAD \o enc \o SAMPLE_TAIL
        offs == [k \in 1..Len(SAMPLE_OFFSETS) |->
                    IF k > 20 THEN SAMPLE_OFFSETS[k] + Len(enc) ELSE SAMPLE_OFFSETS[k]]
    IN  body \o offs
        \o <<0, 0, 0, 0, 0, 0, 1, 1>>
        \o <<0, 0, 0, 0, 0, 0, 0, Len(SAMPLE_OFFSETS)>>
        \o <<0, 0, 0, 0, 0, 0, 0, 0>>
        \o <<0, 0, 0, 0, 0, 0, 0, Len(body)>>

(***************************************************************************)
(* The timestamp converter on its own: a raw date is converted and then    *)
(* formatted.                                                              *)
(***************************************************************************)
\* how far around each anchor the raw dates range
MaxDelta == 2

TsAnchors ==
    { <<0, 0>>,                 \* the Apple epoch
      <<1000, 0>>,              \* 10^12
      <<-1000, 0>>,             \* -10^12
      <<-1, 21692800>>,         \* -978307200: the Unix epoch
      <<0, 720232200>>,         \* 2023-10-29T00:30:00Z in seconds
      <<720232200, 0>>,         \* the same instant in nanoseconds
      <<720232200, 999999500>> }

TsInputs ==
    {None} \cup { BigAddInt(a, d) : a \in TsAnchors, d \in (0 - MaxDelta)..MaxDelta }

InitTime ==
    /\ pc = "start"
    /\ zone \in Zones
    /\ ts \in TsInputs
    /\ unix_ts = None
    /\ iso = <<>>
    /\ attributed_body = <<>>
    /\ loaded = NotLoaded
    /\ parser_out = NoOutcome
    /\ db_out = NoOutcome
    /\ EmptyStore

AppleToUnix ==
    /\ pc = "start"
    /\ unix_ts' = apple_to_unix(ts)
    /\ pc' = "converted"
    /\ UNCHANGED <<zone, ts, iso, decoderVars, storeVars, exportVars, runVars, htmlVars>>

FormatTimestamp ==
    /\ pc = "converted"
    /\ iso' = format_timestamp(zone, unix_ts)
    /\ pc' = "formatted"
    /\ UNCHANGED <<zone, ts, unix_ts, decoderVars, storeVars, exportVars, runVars, htmlVars>>

NextTime == AppleToUnix \/ FormatTimestamp

SpecTime == InitTime /\ [][NextTime]_vars

(***************************************************************************)
(* C1: for every integer t, apple_to_unix(t) is t + 978307200 seconds when *)
(* t <= 10^12 and t / 10^9 + 978307200 seconds when t > 10^12; for None    *)
(* the result is None.                                                     *)
(* Stated on the result r = <<hi, lo, nano>>: in the first case r is whole *)
(* and r - t = 978307200; in the second (r - 978307200) * 10^9 = t, that   *)
(* is, r - 978307200 is t[1] whole seconds and t[2] nanoseconds.           *)
(***************************************************************************)
C1_AppleToUnix ==
    pc # "start" =>
        /\ ts = None => unix_ts = None
        /\ ts # None => unix_ts # None
        /\ (ts # None /\ BigLeq(ts, <<1000, 0>>)) =>
              /\ unix_ts[3] = 0
              /\ BigSub(<<unix_ts[1], unix_ts[2]>>, ts) = <<0, 978307200>>
        /\ (ts # None /\ BigLess(<<1000, 0>>, ts)) =>
              /\ BigSub(<<unix_ts[1], unix_ts[2]>>, <<0, 978307200>>) = <<0, ts[1]>>
              /\ unix_ts[3] = ts[2]

\* 10^12 + 1 has been converted as nanoseconds: 1000 s and 1 ns after the epoch
C1_Witness ==
    /\ pc = "converted"
    /\ ts = <<1000, 1>>
    /\ unix_ts = <<0, 978308200, 1>>

\* the absolute value of a raw date
Magnitude(t) == IF BigLess(t, <<0, 0>>) THEN BigSub(<<0, 0>>, t) ELSE t

\* u is t read as nanoseconds, ts / 1e9 + 978307200: t[1] whole seconds and
\* t[2] nanoseconds after the Apple epoch
AsNanoseconds(t, u) ==
    /\ BigSub(<<u[1], u[2]>>, <<0, APPLE_EPOCH_OFFSET>>) = <<0, t[1]>>
    /\ u[3] = t[2]

\* u is t read as whole seconds, ts + 978307200
AsSeconds(t, u) ==
    /\ u[3] = 0
    /\ BigSub(<<u[1], u[2]>>, t) = <<0, APPLE_EPOCH_OFFSET>>

(***************************************************************************)
(* C23, as claimed: the unit is detected by magnitude; every raw value     *)
(* whose absolute value exceeds 10^12, the negative ones included, is      *)
(* converted as nanoseconds, and every other value as whole seconds.       *)
(***************************************************************************)
C23_ByMagnitude ==
    (pc # "start" /\ ts # None) =>
        IF BigLess(NANOSECONDS_THRESHOLD, Magnitude(ts))
        THEN AsNanoseconds(ts, unix_ts)
        ELSE AsSeconds(ts, unix_ts)

(***************************************************************************)
(* C23, amended: the unit is detected by the signed value; every raw value *)
(* greater than 10^12 is converted as nanoseconds, and every other value,  *)
(* the negative ones of any magnitude included, as whole seconds.          *)
(***************************************************************************)
C23_BySignedValue ==
    (pc # "start" /\ ts # None) =>
        IF BigLess(NANOSECONDS_THRESHOLD, ts)
        THEN AsNanoseconds(ts, unix_ts)
        ELSE AsSeconds(ts, unix_ts)

\* -10^12 - 1 has been converted as whole seconds
C23_Witness ==
    /\ pc = "converted"
    /\ ts = <<-1001, 999999999>>
    /\ unix_ts = <<-1000, 978307199, 0>>

(***************************************************************************)
(* The attributed-body decoders on their own: a blob is taken from the     *)
(* attributedBody column together with what the library call on it gives   *)
(* (plistlib.loads, typedstream.unarchive_from_data), and each decoder     *)
(* runs on it once.                                                        *)
(***************************************************************************)
\* how long the variable strings of the blobs are
MaxStrLen == 2
\* how far a CF$UID reference ranges on either side of 0
MaxUid == 5

\* stands for the bytes of a blob after the prefix the parser looks at, where
\* the model gives the library's result instead of the bytes
REST == -1

RECURSIVE StringsOver(_, _)
StringsOver(alphabet, n) ==
    IF n = 0 THEN {<<>>}
    ELSE LET shorter == StringsOver(alphabet, n - 1)
         IN  shorter \cup { Append(t, c) : t \in shorter, c \in alphabet }

HELLO_WORLD == <<72, 101, 108, 108, 111, 87, 111, 114, 108, 100>>          \* "HelloWorld"
HELLO_OBJ_WORLD == <<72, 101, 108, 108, 111, 65532, 87, 111, 114, 108, 100>> \* "Hello\uFFFCWorld"
HI_THERE == <<72, 105, 32, 116, 104, 101, 114, 101>>                       \* "Hi there"

\* the strings archived in the sample blob: H, i, U+FFFC
SampleStrings ==
    {HELLO_OBJ_WORLD, HELLO_WORLD, HI_THERE}
        \cup StringsOver({72, 105, OBJECT_REPLACEMENT_CHAR}, MaxStrLen)

\* the strings inside a wrapper or a member: a ( ) " ' \ n U+FFFC
InnerStrings ==
    {HI_THERE, <<97, 92, 116, 98>>, <<92, 117, 50, 48, 48, 98>>}
        \cup StringsOver({97, 40, 41, 34, 39, 92, 110, OBJECT_REPLACEMENT_CHAR}, MaxStrLen)

\* NSString("s") and NSMutableString('s')
Wrap(open, quote, str) == open \o <<quote>> \o str \o <<quote, 41>>

WrappedStrings(str) ==
    { Wrap(NS_STRING_OPEN, 34, str), Wrap(NS_MUTABLE_STRING_OPEN, 39, str) }

\* the blobs of the sample archive, with what plistlib.loads gives on them
SampleInputs == { <<SampleBlob(str), SampleArchive(str)>> : str \in SampleStrings }

\* a reference as found in an archive: {"CF$UID": i}, and the shapes a
\* damaged or foreign archive can have in its place
RefShapes ==
    { Ref(i) : i \in (0 - MaxUid)..MaxUid }
        \cup { PyDict(K_CFUID :> PyStr(<<120>>)), PyDict(K_CLASS :> PyInt(1)),
               PyUID(1), PyInt(1) }

StringObjectShapes == { PyStr(<<122, 122>>), PyInt(7) }

KeyedShapes ==
    { Archive(PyDict(K_ROOT :> root_ref), ObjectArray(RootObject(string_ref), string_obj)) :
          root_ref \in RefShapes, string_ref \in RefShapes, string_obj \in StringObjectShapes }
    \cup { Archive(top, ObjectArray(RootObject(Ref(2)), PyStr(<<122, 122>>))) :
          top \in { PyInt(5), PyList(<<PyStr(K_ROOT)>>), PyStr(K_ROOT),
                    PyDict(K_CLASS :> Ref(1)) } }
    \cup { Archive(PyDict(K_ROOT :> Ref(1)), objects) :
          objects \in { PyInt(3), PyStr(<<122, 122>>), PyList(<<>>),
                        PyDict(K_ROOT :> PyInt(1)) } }
    \cup { PyInt(5), PyList(<<PyStr(K_OBJECTS), PyStr(K_TOP)>>),
           PyStr(K_OBJECTS \o K_TOP), PyDict(K_TOP :> PyInt(1)), LoadError }

KeyedInputs == { <<BPLIST_MAGIC \o <<REST>>, lib>> : lib \in KeyedShapes }

STREAMTYPED ==    \* b'\x04\x0bstreamtyped'
    <<4, 11, 115, 116, 114, 101, 97, 109, 116, 121, 112, 101, 100>>

Stream(hasContents, contents) ==
    [ty |-> "stream", hasContents |-> hasContents, contents |-> contents]

\* a TypedValue with .value, and a member without one
ValueMember(ty, v) == [hasValue |-> TRUE, value |-> [ty |-> ty, v |-> v], repr |-> <<>>]
PlainMember(repr) == [hasValue |-> FALSE, value |-> [ty |-> "str", v |-> <<>>], repr |-> repr]

\* bytes values: ASCII text, U+FFFC in UTF-8, an invalid byte
BytesValues ==
    { str \in InnerStrings : \A i \in 1..Len(str) : str[i] < 128 }
        \cup { <<72, 239, 191, 188, 105>>, <<72, 255, 105>> }

StreamShapes ==
    { Stream(TRUE, <<ValueMember("obj", text)>>) :
          text \in UNION { WrappedStrings(str) : str \in InnerStrings } }
    \cup { Stream(TRUE, <<ValueMember(ty, str)>>) :
          ty \in {"attr", "str", "obj"}, str \in InnerStrings }
    \cup { Stream(TRUE, <<ValueMember("bytes", b)>>) : b \in BytesValues }
    \cup { Stream(TRUE, <<PlainMember(str)>>) : str \in InnerStrings }
    \cup { Stream(TRUE, <<PlainMember(HI_THERE), ValueMember("str", <<97>>)>>),
           Stream(TRUE, <<>>), Stream(FALSE, <<>>), LoadError }

StreamInputs == { <<STREAMTYPED \o <<REST>>, lib>> : lib \in StreamShapes }

\* blobs that are neither: typedstream rejects them
RawInputs ==
    { <<body, LoadError>> :
          body \in { BPLIST_MAGIC \o <<103, 97, 114, 98, 97, 103, 101>>,   \* b'bplist00garbage'
                     <<103, 97, 114, 98, 97, 103, 101>>,
                     <<0>> \o HI_THERE \o <<46, 32, 105, 73, 4, 0>>,
                     <<1, 0>> \o HI_THERE \o <<92, 110, 239, 191, 188, 33, 0, 255>>,
                     <<255, 254, 0, 128>> } }

DecodeInputs ==
    {<<<<>>, NotLoaded>>} \cup SampleInputs \cup KeyedInputs \cup StreamInputs \cup RawInputs

InitDecode ==
    /\ pc = "blob"
    /\ zone = "UTC"
    /\ ts = None
    /\ unix_ts = None
    /\ iso = <<>>
    /\ \E input \in DecodeInputs :
          /\ attributed_body = input[1]
          /\ loaded = input[2]
    /\ parser_out = NoOutcome
    /\ db_out = NoOutcome
    /\ EmptyStore

\* TextParser.extract_text_from_attributed_body(attributed_body)
ParserExtract ==
    /\ pc = "blob"
    /\ parser_out = NoOutcome
    /\ parser_out' = extract_text_from_attributed_body(attributed_body, loaded)
    /\ UNCHANGED <<pc, zone, timeVars, attributed_body, loaded, db_out, storeVars, exportVars, runVars, htmlVars>>

\* IMessageDatabase._extract_text_from_attributed_body(attributed_body), on
\* the blobs whose bytes the model has in full
DbExtract ==
    /\ pc = "blob"
    /\ db_out = NoOutcome
    /\ ~ \E i \in 1..Len(attributed_body) : attributed_body[i] = REST
    /\ db_out' = _extract_text_from_attributed_body(attributed_body)
    /\ UNCHANGED <<pc, zone, timeVars, attributed_body, loaded, parser_out, storeVars, exportVars, runVars, htmlVars>>

NextDecode == ParserExtract \/ DbExtract

SpecDecode == InitDecode /\ [][NextDecode]_vars

\* str without its object replacement characters
WithoutObjectReplacement(str) == SelectSeq(str, LAMBDA c : c # OBJECT_REPLACEMENT_CHAR)

\* ref is {"CF$UID": i} with i an index into a list of n objects
IsReference(ref, n) ==
    /\ ref.ty = "dict"
    /\ K_CFUID \in DOMAIN ref.v
    /\ ref.v[K_CFUID].ty = "int"
    /\ ref.v[K_CFUID].v \in 0..(n - 1)

\* every link of $top.root -> object -> NS.string -> str is present, in
\* range and of the expected shape
WellFormedArchive(a) ==
    /\ a.ty = "dict"
    /\ {K_OBJECTS, K_TOP} \subseteq DOMAIN a.v
    /\ a.v[K_OBJECTS].ty = "list"
    /\ a.v[K_TOP].ty = "dict"
    /\ K_ROOT \in DOMAIN a.v[K_TOP].v
    /\ LET objects  == a.v[K_OBJECTS].v
           root_ref == a.v[K_TOP].v[K_ROOT]
       IN  /\ IsReference(root_ref, Len(objects))
           /\ LET root_obj == objects[root_ref.v[K_CFUID].v + 1]
              IN  /\ root_obj.ty = "dict"
                  /\ K_NSSTRING \in DOMAIN root_obj.v
                  /\ IsReference(root_obj.v[K_NSSTRING], Len(objects))
                  /\ objects[root_obj.v[K_NSSTRING].v[K_CFUID].v + 1].ty = "str"

\* the string a well-formed archive holds
ArchivedString(a) ==
    LET objects  == a.v[K_OBJECTS].v
        root_obj == objects[a.v[K_TOP].v[K_ROOT].v[K_CFUID].v + 1]
    IN  objects[root_obj.v[K_NSSTRING].v[K_CFUID].v + 1].v

IsKeyedBlob == StartsWith(attributed_body, BPLIST_MAGIC)
IsStreamBlob == StartsWith(attributed_body, STREAMTYPED)

(***************************************************************************)
(* C3: the attributed-body decoder never raises: for every byte string,    *)
(* malformed, truncated or wrongly shaped archives included, it returns a  *)
(* string and no error outcome reaches the caller.                         *)
(***************************************************************************)
C3_NeverRaises ==
    /\ parser_out.kind # "raise"
    /\ db_out.kind # "raise"

(***************************************************************************)
(* C4: a keyed-archive blob whose $top.root resolves to an object whose    *)
(* NS.string resolves to the string S decodes to S without its U+FFFC      *)
(* characters, with the decoder the exports call as well as with           *)
(* TextParser's.                                                           *)
(***************************************************************************)
C4_KeyedArchiveDecodes ==
    \A str \in SampleStrings :
        loaded = SampleArchive(str) =>
            /\ parser_out # NoOutcome => parser_out = Return(WithoutObjectReplacement(str))
            /\ db_out # NoOutcome => db_out = Return(WithoutObjectReplacement(str))

(***************************************************************************)
(* C5: in the keyed-archive decoder every indirection is checked before it *)
(* is dereferenced: when a link is missing, out of range or of an          *)
(* unexpected shape, the decode ends in the empty string and does not      *)
(* raise.                                                                  *)
(***************************************************************************)
C5_CheckedIndirections ==
    (/\ IsKeyedBlob
     /\ loaded # LoadError
     /\ parser_out # NoOutcome
     /\ ~WellFormedArchive(loaded)) => parser_out = Return(<<>>)

\* the post-processing of a decoded string: the escapes, then U+FFFC
PostProcess(str) == WithoutObjectReplacement(_convert_escaped_characters(str))

\* the stream has a first member
HasFirstMember ==
    /\ IsStreamBlob
    /\ loaded # LoadError
    /\ loaded.hasContents
    /\ loaded.contents # <<>>

\* the first member has a value whose str() is text
FirstValueIs(text) ==
    /\ HasFirstMember
    /\ loaded.contents[1].hasValue
    /\ loaded.contents[1].value.ty \in {"attr", "str", "obj"}
    /\ loaded.contents[1].value.v = text

(***************************************************************************)
(* C6: for the typed-stream encoding the first string-valued member of the *)
(* root contents is unwrapped from its string-object representation: for   *)
(* every string s, NSString("s") and NSMutableString('s') yield exactly s  *)
(* (type name, parentheses and the one pair of enclosing quotes removed).  *)
(* The decode then returns s post-processed, which is s itself when s has  *)
(* neither a backslash nor U+FFFC.                                         *)
(***************************************************************************)
C6_UnwrapsStringObject ==
    \A str \in InnerStrings : \A text \in WrappedStrings(str) :
        (FirstValueIs(text) /\ parser_out # NoOutcome) =>
            /\ _clean_string_object(text) = str
            /\ parser_out = Return(PostProcess(str))
            /\ (\A i \in 1..Len(str) : str[i] \notin {92, OBJECT_REPLACEMENT_CHAR})
                  => parser_out = Return(str)

\* NSString("Hi there") has been decoded to "Hi there"
C6_Witness ==
    /\ FirstValueIs(Wrap(NS_STRING_OPEN, 34, HI_THERE))
    /\ parser_out = Return(HI_THERE)

(***************************************************************************)
(* C7: the same post-processing is applied to the decoded string on every  *)
(* successful decode path, whichever encoding it came from: U+FFFC is      *)
(* removed and the literal sequences \n, \t, \r, \u200a, \u200b, \u200c    *)
(* become the real characters; no path returns text that skipped a step.   *)
(***************************************************************************)
C7_SamePostProcessing ==
    /\ (IsKeyedBlob /\ loaded # LoadError /\ WellFormedArchive(loaded)
           /\ parser_out # NoOutcome)
          => parser_out = Return(PostProcess(ArchivedString(loaded)))
    /\ \A str \in InnerStrings :
          (FirstValueIs(str) /\ parser_out # NoOutcome)
              => parser_out = Return(PostProcess(_clean_string_object(str)))
    /\ (HasFirstMember /\ ~loaded.contents[1].hasValue /\ parser_out # NoOutcome)
          => parser_out = Return(PostProcess(loaded.contents[1].repr))

(***************************************************************************)
(* The exports (database.py): export_chat_to_csv and                       *)
(* export_all_chats_to_json over a store.  A row of table message is       *)
(* [date, text, attributedBody]; the columns that are copied to the output *)
(* unchanged (is_from_me, handle, service, guid, ...) go with the message  *)
(* id, and an attachment's name, MIME type and path with its rowid.        *)
(***************************************************************************)
\* the rows of table message
MaxMessages == 2
\* the attachments one message can have
MaxAttachments == 2

\* a NULL column and the None / null of a record, kept apart from ""
NULL == <<"NULL">>

\* `if x`, for a str, bytes or None
Truthy(x) == x # NULL /\ x # <<>>

CSV_HEADER ==
    <<"message_id", "timestamp_local_iso", "from_me", "sender_identifier", "text",
      "service", "attachment_name", "attachment_mime", "attachment_path">>

\* list.sort(key=...): stable; before[i][j] says that the key of seq[i] is
\* less than the key of seq[j]
StableSort(seq, before) ==
    LET n == Len(seq)
        Rank(i) == Cardinality({ j \in 1..n :
                       before[j][i] \/ (~before[i][j] /\ j < i) }) + 1
    IN  [k \in 1..n |-> seq[CHOOSE i \in 1..n : Rank(i) = k]]

\* the rows of a query in the order of a total order, less its pairs <<x, y>>
OrderedRows(rows, less) ==
    [k \in 1..Cardinality(rows) |->
        CHOOSE x \in rows : Cardinality({ y \in rows : <<y, x>> \in less }) = k - 1]

\* ORDER BY m.date ASC: NULL first, then the raw integers
DateLess(d1, d2) ==
    IF d1 = None THEN d2 # None
    ELSE d2 # None /\ BigLess(d1, d2)

\* the order of two ISO strings from format_timestamp, "" first: the wall
\* clock text, then '+' before '.', the microseconds, and the offset
IsoLess(a, b) ==
    IF b = <<>> THEN FALSE
    ELSE IF a = <<>> THEN TRUE
    ELSE \/ BigLess(<<a[1], a[2]>>, <<b[1], b[2]>>)
         \/ /\ a[1] = b[1] /\ a[2] = b[2]
            /\ (a[3] < b[3] \/ (a[3] = b[3] /\ a[4] < b[4]))

\* the messages joined to a chat, and the attachments joined to a message
MessagesOf(chat_id) ==
    { m \in DOMAIN message : <<chat_id, m>> \in chat_message_join }

AttachmentsOf(message_id) ==
    { j[2] : j \in { j \in message_attachment_join : j[1] = message_id } }

\* rows the engine may return in either order (no ORDER BY column tells
\* them apart): by attachment rowid, ascending or descending
AttachmentLess(a, b, scan) == IF scan = "asc" THEN a < b ELSE b < a

\* lines 180-207: <<message_id, attachment_id>>, attachment 0 where the LEFT
\* JOIN found none
CsvQuery(chat_rowid, scan) ==
    LET rows == UNION { IF AttachmentsOf(m) = {} THEN {<<m, 0>>}
                        ELSE { <<m, a>> : a \in AttachmentsOf(m) } :
                        m \in MessagesOf(chat_rowid) }
        Less(x, y) ==
            \/ DateLess(message[x[1]].date, message[y[1]].date)
            \/ /\ message[x[1]].date = message[y[1]].date
               /\ (x[1] < y[1] \/ (x[1] = y[1] /\ AttachmentLess(x[2], y[2], scan)))
    IN  OrderedRows(rows, { p \in rows \X rows : Less(p[1], p[2]) })

\* lines 218-223 and 230
CsvText(m) ==
    LET message_text ==
            IF Truthy(m.text) THEN m.text
            ELSE IF Truthy(m.attributedBody)
                 THEN _extract_text_from_attributed_body(m.attributedBody).text
                 ELSE <<>>
    IN  Replace(message_text, <<13, 10>>, <<10>>)

\* a loop body that decodes every attributed body it is given
CsvDecoderCallsEager(m) ==
    IF Truthy(m.attributedBody) THEN <<m.attributedBody>> ELSE <<>>

\* lines 219-223: the attributed bodies the loop body hands to
\* _extract_text_from_attributed_body for one row
CsvDecoderCalls(m) ==
    IF Truthy(m.text) THEN <<>>
    ELSE IF Truthy(m.attributedBody) THEN <<m.attributedBody>>
    ELSE <<>>

\* lines 216-235: one written row
CsvRow(r) ==
    [message_id |-> r[1],
     timestamp_local_iso |-> format_timestamp(zone, apple_to_unix(message[r[1]].date)),
     text |-> CsvText(message[r[1]]),
     decoder_calls |-> CsvDecoderCalls(message[r[1]]),
     attachment |-> IF r[2] = 0 THEN <<>> ELSE <<r[2]>>]

\* what the environment can refuse an operation: the connection
\* (sqlite3.connect raises in get_connection), a query (conn.execute
\* raises), the output file (open raises)
Faults == {"none", "connect", "query", "file"}

FaultError(fault) ==
    CASE fault = "connect" -> "sqlite3.OperationalError"
      [] fault = "query"   -> "sqlite3.DatabaseError"
      [] fault = "file"    -> "OSError"
      [] OTHER             -> ""

\* how an operation is left
Exit(outcome) == IF outcome.status = "raised" THEN "raise" ELSE "return"

\* a block that closes the connection only where it returns
ClosedOnReturn(exit) == exit = "return"

\* `finally: conn.close()`: the close runs however the try block is left
ClosedOnExit(exit) == exit \in {"return", "raise"}

\* the larger of two numbers
Max(a, b) == IF a >= b THEN a ELSE b

\* an operation that leaves its connection to the garbage collector
Unscoped(conns, fault, exit) ==
    IF fault = "connect" THEN conns
    ELSE [opened |-> conns.opened + 1,
          closed |-> conns.closed,
          peak   |-> Max(conns.peak, conns.opened + 1 - conns.closed)]

\* conn = self.get_connection(); try: ... finally: conn.close().  When
\* get_connection raises there is no connection and the try block is not
\* entered.
Scoped(conns, fault, exit) ==
    IF fault = "connect" THEN conns
    ELSE [opened |-> conns.opened + 1,
          closed |-> conns.closed + (IF ClosedOnExit(exit) THEN 1 ELSE 0),
          peak   |-> Max(conns.peak, conns.opened + 1 - conns.closed)]

\* export_chat_to_csv(chat_rowid, csv_path): the header, then the rows up
\* to the first one whose timestamp cannot be formatted
export_chat_to_csv(chat_rowid, scan, fault) ==
    LET q    == CsvQuery(chat_rowid, scan)
        rows == [k \in 1..Len(q) |-> CsvRow(q[k])]
        bad  == { k \in 1..Len(q) : rows[k].timestamp_local_iso = ValueError }
    IN  IF fault # "none"
        THEN [status |-> "raised", error |-> FaultError(fault),
              chat_rowid |-> chat_rowid, header |-> <<>>, rows |-> <<>>]
        ELSE IF bad = {}
        THEN [status |-> "written", error |-> "", chat_rowid |-> chat_rowid,
              header |-> CSV_HEADER, rows |-> rows]
        ELSE [status |-> "raised", error |-> "ValueError", chat_rowid |-> chat_rowid,
              header |-> CSV_HEADER,
              rows |-> SubSeq(rows, 1, (CHOOSE k \in bad : \A j \in bad : k <= j) - 1)]

ExportChatToCsv ==
    /\ pc = "store"
    /\ csv_out.status = "none"
    /\ \E chat_rowid \in chat, scan \in {"asc", "desc"}, fault \in Faults :
          \E outcome \in { export_chat_to_csv(chat_rowid, scan, fault) } :
          /\ csv_out' = outcome
          /\ connections' = Scoped(connections, fault, Exit(outcome))
    /\ UNCHANGED <<pc, zone, timeVars, decoderVars, storeVars, json_out,
                   find_out, command_out, htmlVars>>

\* lines 269-281: <<chat_id, message_id>> in ORDER BY m.date, m.rowid
MessagesQuery ==
    LET rows == { j \in chat_message_join : j[2] \in DOMAIN message }
        Less(x, y) ==
            \/ DateLess(message[x[2]].date, message[y[2]].date)
            \/ /\ message[x[2]].date = message[y[2]].date
               /\ (x[2] < y[2] \/ (x[2] = y[2] /\ x[1] < y[1]))
    IN  OrderedRows(rows, { p \in rows \X rows : Less(p[1], p[2]) })

\* lines 284-301: att_map[message_id], one entry per row of
\* message_attachment_join x chat_message_join for the message
AttMap(message_id, scan) ==
    LET rows == { <<a, c>> \in AttachmentsOf(message_id) \X { j[1] : j \in chat_message_join } :
                      <<c, message_id>> \in chat_message_join }
        Less(x, y) == AttachmentLess(x[1], y[1], scan) \/ (x[1] = y[1] /\ x[2] < y[2])
        ordered == OrderedRows(rows, { p \in rows \X rows : Less(p[1], p[2]) })
    IN  [k \in 1..Len(ordered) |-> ordered[k][1]]

\* lines 316-328: the record of a message
MessageRecord(message_id, scan) ==
    LET unix == apple_to_unix(message[message_id].date) IN
    [id |-> message_id,
     \* format_timestamp(ts) if ts else None: 0 is not a timestamp either
     timestamp |-> IF unix = None \/ unix = <<0, 0, 0>> THEN NULL
                   ELSE format_timestamp(zone, unix),
     text |-> message[message_id].text,
     attachments |-> AttMap(message_id, scan)]

\* x["timestamp"] or ""
TimestampKey(record) == IF record.timestamp = NULL THEN <<>> ELSE record.timestamp

RecordLess(x, y) == IsoLess(TimestampKey(x), TimestampKey(y))

\* lines 303-328 and 332-333: the record of a chat, its messages sorted
ChatRecord(chat_rowid, scan) ==
    LET q    == MessagesQuery
        mine == SelectSeq(q, LAMBDA j : j[1] = chat_rowid)
        messages == [k \in 1..Len(mine) |-> MessageRecord(mine[k][2], scan)]
    IN  [chat_rowid |-> chat_rowid,
         messages |-> StableSort(messages,
                         [i \in 1..Len(mine) |-> [j \in 1..Len(mine) |->
                             RecordLess(messages[i], messages[j])]])]

\* line 334: the key of a chat
LastTimestamp(c) ==
    IF c.messages = <<>> THEN <<>> ELSE c.messages[Len(c.messages)].timestamp

\* reverse=True
ChatBefore(x, y) == IsoLess(LastTimestamp(y), LastTimestamp(x))

\* export_all_chats_to_json(json_path): the file is written at the end, if
\* nothing raised before
export_all_chats_to_json(scan, fault) ==
    LET chats  == OrderedRows(chat, { p \in chat \X chat : p[1] < p[2] })
        result == [k \in 1..Len(chats) |-> ChatRecord(chats[k], scan)]
        q      == MessagesQuery
        \* line 317: chat_map[m["chat_id"]], then line 319
        NoChat(k)  == q[k][1] \notin chat
        NoYear(k)  == MessageRecord(q[k][2], scan).timestamp = ValueError
        bad        == { k \in 1..Len(q) : NoChat(k) \/ NoYear(k) }
        first      == CHOOSE k \in bad : \A j \in bad : k <= j
    IN  IF fault \in {"connect", "query"}
        THEN [status |-> "raised", error |-> FaultError(fault), result |-> <<>>]
        ELSE IF bad # {}
        THEN [status |-> "raised",
              error |-> IF NoChat(first) THEN "KeyError" ELSE "ValueError",
              result |-> <<>>]
        \* a None key cannot be compared with any other key
        ELSE IF Len(result) >= 2
                /\ \E k \in 1..Len(result) : LastTimestamp(result[k]) = NULL
        THEN [status |-> "raised", error |-> "TypeError", result |-> <<>>]
        \* line 337: the file is opened last
        ELSE IF fault = "file"
        THEN [status |-> "raised", error |-> FaultError(fault), result |-> <<>>]
        ELSE [status |-> "written", error |-> "",
              result |-> StableSort(result,
                  [i \in 1..Len(result) |-> [j \in 1..Len(result) |->
                      ChatBefore(result[i], result[j])]])]

ExportAllChatsToJson ==
    /\ pc = "store"
    /\ json_out.status = "none"
    /\ \E scan \in {"asc", "desc"}, fault \in Faults :
          \E outcome \in { export_all_chats_to_json(scan, fault) } :
          /\ json_out' = outcome
          /\ connections' = Scoped(connections, fault, Exit(outcome))
    /\ UNCHANGED <<pc, zone, timeVars, decoderVars, storeVars, csv_out,
                   find_out, command_out, htmlVars>>

\* the chats of the store; chat 3 has no message
ChatIds == {1, 2, 3}

\* the chats a message is joined to
ChatMenus == {{1}, {2}, {1, 2}}

\* raw dates: NULL, an instant in seconds and in nanoseconds, the second
\* after it, 00:30Z and 01:15Z on 2023-10-29 (the hour British Summer Time
\* ends), the Unix epoch, and 10^12 seconds (beyond the year 9999)
DateValues ==
    { None, <<0, 700000000>>, <<700000000, 0>>, <<0, 700000001>>,
      <<0, 720232200>>, <<0, 720234900>>, <<-1, 21692800>>, <<1000, 0>> }

HI == <<104, 105>>    \* "hi"

MessageIds == 1..MaxMessages

Joined(menus) == { <<c, m>> \in ChatIds \X MessageIds : c \in menus[m] }

\* the attachments of message m have the rowids 10 m + 1, 10 m + 2, ...
Attached(counts) ==
    UNION { { <<m, 10 * m + k>> : k \in 1..counts[m] } : m \in MessageIds }

\* stores that differ in the dates of their messages
DatedStores ==
    /\ zone \in Zones
    /\ \E dates \in [MessageIds -> DateValues], menus \in [MessageIds -> ChatMenus] :
          /\ message = [m \in MessageIds |->
                           [date |-> dates[m], text |-> HI, attributedBody |-> NULL]]
          /\ chat_message_join = Joined(menus)
    /\ message_attachment_join = {}

\* stores that differ in the attachments of their messages
AttachmentStores ==
    /\ zone = "UTC"
    /\ \E counts \in [MessageIds -> 0..MaxAttachments], menus \in [MessageIds -> ChatMenus] :
          /\ message = [m \in MessageIds |->
                           [date |-> <<0, 700000000 + m>>, text |-> HI,
                            attributedBody |-> NULL]]
          /\ chat_message_join = Joined(menus)
          /\ message_attachment_join = Attached(counts)

\* stores that differ in the text of their messages
TextStores ==
    /\ zone = "UTC"
    /\ \E text \in {NULL, <<>>, HI, <<97, 13, 10, 98>>, <<97, 13, 13, 10, 98>>},
          body \in {NULL, <<>>, <<0>> \o HI_THERE \o <<46, 13, 10, 0>>, SampleBlob(HI_THERE)} :
          message = [m \in MessageIds |->
                        [date |-> <<0, 700000000 + m>>,
                         text |-> IF m = 1 THEN text ELSE HI,
                         attributedBody |-> IF m = 1 THEN body ELSE NULL]]
    /\ chat_message_join = Joined([m \in MessageIds |-> {1}])
    /\ message_attachment_join = {}

\* stores with a row of chat_message_join whose chat_id, 4, is the rowid
\* of no chat (SQLite does not enforce the reference)
OrphanStores ==
    /\ zone = "UTC"
    /\ \E menus \in [MessageIds -> ChatMenus], m \in MessageIds :
          chat_message_join = Joined(menus) \cup { <<4, m>> }
    /\ message = [m \in MessageIds |->
                     [date |-> <<0, 700000000 + m>>, text |-> HI,
                      attributedBody |-> NULL]]
    /\ message_attachment_join = {}

InitExport ==
    /\ pc = "store"
    /\ ts = None
    /\ unix_ts = None
    /\ iso = <<>>
    /\ attributed_body = <<>>
    /\ loaded = NotLoaded
    /\ parser_out = NoOutcome
    /\ db_out = NoOutcome
    /\ chat = ChatIds
    /\ (DatedStores \/ AttachmentStores \/ TextStores \/ OrphanStores)
    /\ handle = <<>>
    /\ chat_handle_join = {}
    /\ NoHtml
    /\ NotRun

NextExport == ExportChatToCsv \/ ExportAllChatsToJson

SpecExport == InitExport /\ [][NextExport]_vars

\* the converted absolute timestamp of a message, and the order of
\* (timestamp, message id) with the null timestamp first
Converted(message_id) == apple_to_unix(message[message_id].date)

UnixLess(u, v) ==
    IF u = None THEN v # None
    ELSE v # None /\ (BigLess(<<u[1], u[2]>>, <<v[1], v[2]>>)
                       \/ (u[1] = v[1] /\ u[2] = v[2] /\ u[3] < v[3]))

NotAfter(m1, m2) ==
    \/ UnixLess(Converted(m1), Converted(m2))
    \/ (Converted(m1) = Converted(m2) /\ m1 <= m2)

(***************************************************************************)
(* C2: in every export (export_chat_to_csv, export_all_chats_to_json) the  *)
(* messages of a chat are emitted in non-decreasing order of (converted    *)
(* absolute timestamp, message id), null timestamps first, for every       *)
(* combination of raw dates (null, seconds, nanoseconds, equal timestamps).*)
(***************************************************************************)
C2_MessageOrder ==
    /\ csv_out.status = "written" =>
          \A i, j \in 1..Len(csv_out.rows) :
              i < j => NotAfter(csv_out.rows[i].message_id, csv_out.rows[j].message_id)
    /\ json_out.status = "written" =>
          \A c \in 1..Len(json_out.result) :
              LET messages == json_out.result[c].messages IN
              \A i, j \in 1..Len(messages) :
                  i < j => NotAfter(messages[i].id, messages[j].id)

(***************************************************************************)
(* C8: export_chat_to_csv writes the fixed nine-column header and then     *)
(* exactly one data row per message of the chat, whatever the number of    *)
(* attachments of a message (zero, one or many); the row carries only the  *)
(* first associated attachment.                                            *)
(***************************************************************************)
C8_OneRowPerMessage ==
    csv_out.status = "written" =>
        /\ csv_out.header = CSV_HEADER
        /\ Len(csv_out.rows) = Cardinality(MessagesOf(csv_out.chat_rowid))
        /\ \A m \in MessagesOf(csv_out.chat_rowid) :
              \E k \in 1..Len(csv_out.rows) :
                  /\ csv_out.rows[k].message_id = m
                  /\ AttachmentsOf(m) = {} => csv_out.rows[k].attachment = <<>>
                  /\ AttachmentsOf(m) # {} => csv_out.rows[k].attachment[1] \in AttachmentsOf(m)

(***************************************************************************)
(* C9: in export_all_chats_to_json the attachments array of each message   *)
(* record holds every attachment joined to the message through             *)
(* message_attachment_join exactly once, and is empty when there is none,  *)
(* also for a message that is joined to more than one chat.                *)
(***************************************************************************)
C9_AttachmentsOnce ==
    json_out.status = "written" =>
        \A c \in 1..Len(json_out.result) :
            \A k \in 1..Len(json_out.result[c].messages) :
                LET record == json_out.result[c].messages[k] IN
                /\ Len(record.attachments) = Cardinality(AttachmentsOf(record.id))
                /\ \A a \in AttachmentsOf(record.id) :
                      \E i \in 1..Len(record.attachments) : record.attachments[i] = a

\* the latest converted timestamp among a chat's messages
LatestOf(chat_id) ==
    CHOOSE m \in MessagesOf(chat_id) : \A n \in MessagesOf(chat_id) : NotAfter(n, m)

(***************************************************************************)
(* C10: export_all_chats_to_json orders the chat records by the timestamp  *)
(* of each chat's last message, descending: if chat A's last message is    *)
(* later than chat B's, A is listed before B, and every chat with zero     *)
(* messages is listed after every chat that has messages.                  *)
(***************************************************************************)
C10_ChatOrder ==
    json_out.status = "written" =>
        \A i, j \in 1..Len(json_out.result) :
            LET A == json_out.result[i].chat_rowid
                B == json_out.result[j].chat_rowid
            IN  /\ (MessagesOf(A) # {} /\ MessagesOf(B) # {}
                      /\ UnixLess(Converted(LatestOf(B)), Converted(LatestOf(A))))
                     => i < j
                /\ (MessagesOf(A) # {} /\ MessagesOf(B) = {}) => i < j

\* the body text the exports are to give for a row of table message: the
\* text column when it is populated, else the decoded attributedBody, else ""
ResolvedText(m) ==
    IF Truthy(m.text) THEN m.text
    ELSE IF Truthy(m.attributedBody)
         THEN _extract_text_from_attributed_body(m.attributedBody).text
         ELSE <<>>

(***************************************************************************)
(* C19: in export_all_chats_to_json the text of every message record is    *)
(* the text column when it is populated, otherwise the decoded attributed  *)
(* body, otherwise the empty string; it is never null, and the attributed  *)
(* body is never ignored when the text column is absent.                   *)
(***************************************************************************)
C19_JsonText ==
    json_out.status = "written" =>
        \A c \in 1..Len(json_out.result) :
            \A k \in 1..Len(json_out.result[c].messages) :
                LET record == json_out.result[c].messages[k] IN
                /\ record.text # NULL
                /\ record.text = ResolvedText(message[record.id])

(***************************************************************************)
(* C21: export_chat_to_csv hands the attributed body of a message to the   *)
(* decoder only when the text column of the message is NULL or empty, and  *)
(* then, when the message has an attributed body, always: no row falls     *)
(* back to the empty text without the decoder having been tried on the     *)
(* body.                                                                   *)
(***************************************************************************)
C21_LazyDecoder ==
    csv_out.status # "none" =>
        \A k \in 1..Len(csv_out.rows) :
            LET row == csv_out.rows[k]
                m   == message[row.message_id]
            IN  /\ row.decoder_calls # <<>> => ~Truthy(m.text)
                /\ (~Truthy(m.text) /\ Truthy(m.attributedBody))
                       => row.decoder_calls = <<m.attributedBody>>
                /\ (row.text = <<>> /\ Truthy(m.attributedBody))
                       => row.decoder_calls = <<m.attributedBody>>

\* a written file with a row whose text came from the decoder and a row
\* whose text column was taken without a call of the decoder
C21_Witness ==
    /\ csv_out.status = "written"
    /\ \E k \in 1..Len(csv_out.rows) :
          /\ csv_out.rows[k].decoder_calls # <<>>
          /\ csv_out.rows[k].text # <<>>
    /\ \E k \in 1..Len(csv_out.rows) :
          /\ csv_out.rows[k].decoder_calls = <<>>
          /\ Truthy(message[csv_out.rows[k].message_id].text)

\* the key a chat record is to be sorted by: the timestamp of its last
\* message, "" where it has no message or the timestamp is null
LastActivity(c) ==
    IF c.messages = <<>> \/ c.messages[Len(c.messages)].timestamp = NULL THEN <<>>
    ELSE c.messages[Len(c.messages)].timestamp

(***************************************************************************)
(* C28: export_all_chats_to_json completes and writes the file for every   *)
(* combination of message dates; no date makes it raise, in particular not *)
(* the null dates of a chat whose last message has a null timestamp while  *)
(* the store holds two or more chats, and such a chat is ordered like a    *)
(* chat with the empty, least timestamp.                                   *)
(***************************************************************************)
C28_JsonCompletes ==
    /\ json_out.status = "raised" => json_out.error \notin {"TypeError", "ValueError"}
    /\ json_out.status = "written" =>
          \A i, j \in 1..Len(json_out.result) :
              i < j => ~IsoLess(LastActivity(json_out.result[i]),
                                LastActivity(json_out.result[j]))

\* what the environment makes an operation raise
FaultErrors == { FaultError(fault) : fault \in Faults \ {"none"} }

(***************************************************************************)
(* C30: in the file export_all_chats_to_json writes, the messages array of *)
(* each chat record holds exactly the messages joined to that chat through *)
(* chat_message_join, each once, none lost and none under another chat;    *)
(* and the export completes for every store content, also when a row of    *)
(* chat_message_join names a chat_id that no row of table chat has.        *)
(***************************************************************************)
C30_MessagesOfChat ==
    /\ json_out.status = "raised" => json_out.error \in FaultErrors
    /\ json_out.status = "written" =>
          /\ { json_out.result[k].chat_rowid : k \in 1..Len(json_out.result) } = chat
          /\ \A k \in 1..Len(json_out.result) :
                LET c == json_out.result[k] IN
                /\ { c.messages[i].id : i \in 1..Len(c.messages) } = MessagesOf(c.chat_rowid)
                /\ Len(c.messages) = Cardinality(MessagesOf(c.chat_rowid))

\* the export was ended by the KeyError of a join row without chat
OrphanJoinRaised ==
    /\ json_out.status = "raised"
    /\ json_out.error = "KeyError"
    /\ \E j \in chat_message_join : j[1] \notin chat

\* "\r\n" at position i of a text
CrLfAt(text, i) == i < Len(text) /\ text[i] = 13 /\ text[i + 1] = 10

(***************************************************************************)
(* C22: the text field of every row export_chat_to_csv writes holds no     *)
(* carriage return that is immediately followed by a line feed.            *)
(***************************************************************************)
C22_NoCrLf ==
    csv_out.status # "none" =>
        \A k \in 1..Len(csv_out.rows) :
            \A i \in 1..Len(csv_out.rows[k].text) : ~CrLfAt(csv_out.rows[k].text, i)

(***************************************************************************)
(* find_chat_by_participant over a store.  A row of table handle is its    *)
(* id, a str; the chat columns that are copied to the result unchanged     *)
(* (guid, chat_identifier, display_name) go with the chat rowid.           *)
(***************************************************************************)
\* the rows of table handle
MaxHandles == 2

PERCENT == 37       \* "%"
UNDERSCORE == 95    \* "_"

\* the LIKE operator folds the ASCII letters only
Fold(c) == IF c \in 97..122 THEN c - 32 ELSE c

\* SQLite's `s LIKE pattern`, no ESCAPE: % is any run of characters, _ any
\* one character, any other character itself in either letter case
RECURSIVE Like(_, _)
Like(pattern, s) ==
    IF pattern = <<>> THEN s = <<>>
    ELSE IF pattern[1] = PERCENT
         THEN Like(Tail(pattern), s) \/ (s # <<>> /\ Like(pattern, Tail(s)))
         ELSE /\ s # <<>>
              /\ (pattern[1] = UNDERSCORE \/ Fold(pattern[1]) = Fold(s[1]))
              /\ Like(Tail(pattern), Tail(s))

\* sep.join(parts)
RECURSIVE Join(_, _)
Join(parts, sep) ==
    IF parts = <<>> THEN <<>>
    ELSE IF Len(parts) = 1 THEN parts[1]
    ELSE parts[1] \o sep \o Join(Tail(parts), sep)

COMMA_SPACE == <<44, 32>>    \* ", "

\* the handles joined to a chat
ParticipantsOf(chat_id) ==
    { h \in DOMAIN handle : <<chat_id, h>> \in chat_handle_join }

\* lines 136-145: WHERE h.id LIKE '%' || identifier_substring || '%'
Matches(h, identifier_substring) ==
    Like(<<PERCENT>> \o identifier_substring \o <<PERCENT>>, handle[h])

\* lines 136-147: the rows that pass the WHERE clause, grouped by chat;
\* GROUP_CONCAT joins the ids of the rows of the group, in the order the
\* engine scans them
FindQuery(identifier_substring, scan) ==
    LET matching(c) == { h \in ParticipantsOf(c) : Matches(h, identifier_substring) }
        groups == { c \in chat : matching(c) # {} }
        chats  == OrderedRows(groups, { p \in groups \X groups : p[1] < p[2] })
        ids(c) == LET hs == OrderedRows(matching(c),
                                { p \in matching(c) \X matching(c) :
                                      AttachmentLess(p[1], p[2], scan) })
                  IN  [k \in 1..Len(hs) |-> handle[hs[k]]]
    IN  [k \in 1..Len(chats) |->
            [rowid |-> chats[k], participants |-> Join(ids(chats[k]), COMMA_SPACE)]]

\* find_chat_by_participant(identifier_substring)
find_chat_by_participant(identifier_substring, scan, fault) ==
    IF fault # "none"
    THEN [status |-> "raised", error |-> FaultError(fault),
          identifier_substring |-> identifier_substring, rows |-> <<>>]
    ELSE [status |-> "returned", error |-> "",
          identifier_substring |-> identifier_substring,
          rows |-> FindQuery(identifier_substring, scan)]

\* the ids of the handles: "ab", "A", "b", "a_b", "axb"
HandleIdValues == { <<97, 98>>, <<65>>, <<98>>, <<97, 95, 98>>, <<97, 120, 98>> }

\* the texts searched for: "", "a", "A", "b", "ab", "_", "%", "a_b"
SearchTexts ==
    { <<>>, <<97>>, <<65>>, <<98>>, <<97, 98>>, <<UNDERSCORE>>, <<PERCENT>>,
      <<97, 95, 98>> }

FindChatByParticipant ==
    /\ pc = "store"
    /\ find_out.status = "none"
    /\ \E identifier_substring \in SearchTexts, scan \in {"asc", "desc"},
          fault \in Faults \ {"file"} :
          \E outcome \in { find_chat_by_participant(identifier_substring, scan, fault) } :
          /\ find_out' = outcome
          /\ connections' = Scoped(connections, fault, Exit(outcome))
    /\ UNCHANGED <<pc, zone, timeVars, decoderVars, storeVars, exportVars,
                   command_out, htmlVars>>

HandleRowids == 1..MaxHandles

\* stores that differ in the handles and in the chats they are joined to
HandleStores ==
    \E ids \in [HandleRowids -> HandleIdValues], menus \in [HandleRowids -> ChatMenus] :
        /\ handle = ids
        /\ chat_handle_join = { <<c, h>> \in ChatIds \X HandleRowids : c \in menus[h] }

InitFind ==
    /\ pc = "store"
    /\ zone = "UTC"
    /\ ts = None
    /\ unix_ts = None
    /\ iso = <<>>
    /\ attributed_body = <<>>
    /\ loaded = NotLoaded
    /\ parser_out = NoOutcome
    /\ db_out = NoOutcome
    /\ chat = ChatIds
    /\ message = <<>>
    /\ chat_message_join = {}
    /\ message_attachment_join = {}
    /\ HandleStores
    /\ NoHtml
    /\ NotRun

NextFind == FindChatByParticipant

SpecFind == InitFind /\ [][NextFind]_vars

\* the chats find_chat_by_participant returned
Returned == { find_out.rows[k].rowid : k \in 1..Len(find_out.rows) }

(***************************************************************************)
(* C11: find_chat_by_participant returns a chat if and only if at least    *)
(* one of its participant identifiers contains the given text as a         *)
(* case-sensitive, literal substring (letter case must match and no        *)
(* character of the given text acts as a wildcard), and each such chat is  *)
(* returned once.                                                          *)
(***************************************************************************)
C11_LiteralSubstring ==
    find_out.status = "returned" =>
        /\ \A c \in chat :
              c \in Returned <=>
                  \E h \in ParticipantsOf(c) :
                      Contains(handle[h], find_out.identifier_substring)
        /\ \A i, j \in 1..Len(find_out.rows) :
              find_out.rows[i].rowid = find_out.rows[j].rowid => i = j

\* the texts that list every element of a set of handles once, in any order
Listings(hs) ==
    { Join([k \in 1..Cardinality(hs) |-> handle[f[k]]], COMMA_SPACE) :
        f \in { f \in [1..Cardinality(hs) -> hs] :
                    \A i, j \in 1..Cardinality(hs) : f[i] = f[j] => i = j } }

(***************************************************************************)
(* C12: every chat returned by find_chat_by_participant is annotated with  *)
(* its full participant list: the participants field names every           *)
(* participant of that chat, including the participants whose identifier   *)
(* does not match the search text.                                         *)
(***************************************************************************)
C12_FullParticipantList ==
    find_out.status = "returned" =>
        \A k \in 1..Len(find_out.rows) :
            find_out.rows[k].participants \in Listings(ParticipantsOf(find_out.rows[k].rowid))

(***************************************************************************)
(* The commands of commands.py.  A command is one run of the program: it   *)
(* validates its arguments, calls the operations of IMessageDatabase and   *)
(* maps every exception to the exit code 1.  validate_file_path gets       *)
(* `output or DEFAULT_..._FILENAME`, a non-empty str, and returns.         *)
(***************************************************************************)
\* the largest number typed at the prompt
MaxChoice == 3

\* a command that has run to its end
Ended(command, exit_code, error, candidates, prompted, choice, selected) ==
    [status |-> "ended", command |-> command, exit_code |-> exit_code,
     error |-> error, candidates |-> candidates, prompted |-> prompted,
     choice |-> choice, selected |-> selected]

\* what click.prompt(..., type=int) gives: an int, or click.Abort when the
\* input ends
Typed(n) == [kind |-> "int", value |-> n]
Aborted == [kind |-> "abort", value |-> 0]
NoPrompt == [kind |-> "none", value |-> 0]

\* validators.py:78-97: None stands for InvalidDataFormatError
validate_participant_identifier(participant) ==
    IF participant = <<>> THEN None
    ELSE IF ~\E i \in 1..Len(participant) : IsAlnum(participant[i]) THEN None
    ELSE <<Strip(participant)>>

\* a validation that takes 0 for a choice
validate_user_choice_from_zero(choice, max_valid_choice) ==
    IF choice < 0 \/ choice > max_valid_choice THEN None
    ELSE <<choice - 1>>

\* validators.py:34-50: None stands for InvalidChoiceError
validate_user_choice(choice, max_valid_choice) ==
    IF choice < 1 \/ choice > max_valid_choice THEN None
    ELSE <<choice - 1>>

\* ui.py:30-44: the 0-based index, or None
get_user_chat_choice(typed, candidates) ==
    IF typed.kind = "abort" THEN None
    ELSE validate_user_choice(typed.value, Len(candidates))

\* candidates[i] of a list
ListItem(candidates, i) ==
    candidates[IF i < 0 THEN Len(candidates) + i + 1 ELSE i + 1]

\* ui.py:47-65, for a non-empty list: None where nothing is selected
select_chat_from_candidates(candidates, typed) ==
    IF Len(candidates) > 1
    THEN LET choice_index == get_user_chat_choice(typed, candidates)
         IN  IF choice_index = None THEN None
             ELSE <<ListItem(candidates, choice_index[1])>>
    ELSE <<candidates[1]>>

\* commands.py:92-101: the command from the export of the selected chat on
export_selected_chat(found, conns1, asked, selected_chat, exported, csv_fault) ==
    [out  |-> Ended("export_chat", IF exported.status = "raised" THEN 1 ELSE 0,
                    exported.error, found.rows, Len(found.rows) > 1, asked,
                    selected_chat),
     find |-> found, csv |-> exported,
     conns |-> Scoped(conns1, csv_fault, Exit(exported))]

\* commands.py:74-101: the command from the search for the chats on
export_found_chat(found, typed, scan, find_fault, csv_fault) ==
    LET conns1     == Scoped(connections, find_fault, Exit(found))
        candidates == found.rows
        prompted   == Len(candidates) > 1
        asked      == IF prompted THEN typed ELSE NoPrompt
        selected_chat == select_chat_from_candidates(candidates, typed)
    IN  IF found.status = "raised"
        THEN [out  |-> Ended("export_chat", 1, found.error, <<>>, FALSE, NoPrompt, None),
              find |-> found, csv |-> csv_out, conns |-> conns1]
        ELSE IF candidates = <<>>
        THEN [out  |-> Ended("export_chat", 1, "NoChatsFoundError", candidates,
                             FALSE, NoPrompt, None),
              find |-> found, csv |-> csv_out, conns |-> conns1]
        ELSE IF selected_chat = None
        THEN [out  |-> Ended("export_chat", 1, "", candidates, prompted, asked, None),
              find |-> found, csv |-> csv_out, conns |-> conns1]
        ELSE export_selected_chat(found, conns1, asked, selected_chat,
                 export_chat_to_csv(selected_chat[1].rowid, scan, csv_fault),
                 csv_fault)

\* commands.py:41-101
export_chat_command(participant, typed, scan, find_fault, csv_fault) ==
    LET validated_participant == validate_participant_identifier(participant)
    IN  IF validated_participant = None
        THEN [out  |-> Ended("export_chat", 1, "InvalidDataFormatError", <<>>,
                             FALSE, NoPrompt, None),
              find |-> find_out, csv |-> csv_out, conns |-> connections]
        ELSE export_found_chat(
                 find_chat_by_participant(validated_participant[1], scan, find_fault),
                 typed, scan, find_fault, csv_fault)

\* the participant arguments: the texts searched for, and " a"
Participants == SearchTexts \cup { <<32, 97>> }

\* what is typed at the prompt
Choices == { Typed(n) : n \in -1..MaxChoice } \cup { Aborted }

ExportChatCommand ==
    /\ pc = "store"
    /\ command_out.status = "none"
    /\ \E participant \in Participants, typed \in Choices, scan \in {"asc", "desc"},
          find_fault \in Faults \ {"file"}, csv_fault \in Faults :
          \E run \in { export_chat_command(participant, typed, scan, find_fault, csv_fault) } :
              /\ command_out' = run.out
              /\ find_out' = run.find
              /\ csv_out' = run.csv
              /\ connections' = run.conns
    /\ UNCHANGED <<pc, zone, timeVars, decoderVars, storeVars, json_out, htmlVars>>

\* commands.py:134-143: the command from the export on
export_all_written(exported, fault) ==
    [out   |-> Ended("export_all", IF exported.status = "raised" THEN 1 ELSE 0,
                     exported.error, <<>>, FALSE, NoPrompt, None),
     json  |-> exported,
     conns |-> Scoped(connections, fault, Exit(exported))]

\* commands.py:104-143
export_all_command(scan, fault) ==
    export_all_written(export_all_chats_to_json(scan, fault), fault)

ExportAllCommand ==
    /\ pc = "store"
    /\ command_out.status = "none"
    /\ \E scan \in {"asc", "desc"}, fault \in Faults :
          \E run \in { export_all_command(scan, fault) } :
              /\ command_out' = run.out
              /\ json_out' = run.json
              /\ connections' = run.conns
    /\ UNCHANGED <<pc, zone, timeVars, decoderVars, storeVars, csv_out, find_out, htmlVars>>

\* commands.py:176-195: the command from the search for the chats on
list_found_chats(found, fault) ==
    [out  |-> IF found.status = "raised"
              THEN Ended("list_chats", 1, found.error, <<>>, FALSE, NoPrompt, None)
              ELSE IF found.rows = <<>>
              THEN Ended("list_chats", 1, "NoChatsFoundError", <<>>, FALSE,
                         NoPrompt, None)
              ELSE Ended("list_chats", 0, "", found.rows, FALSE, NoPrompt, None),
     find |-> found,
     conns |-> Scoped(connections, fault, Exit(found))]

\* commands.py:146-195
list_chats_command(participant, scan, fault) ==
    LET validated_participant == validate_participant_identifier(participant)
    IN  IF validated_participant = None
        THEN [out  |-> Ended("list_chats", 1, "InvalidDataFormatError", <<>>,
                             FALSE, NoPrompt, None),
              find |-> find_out, conns |-> connections]
        ELSE list_found_chats(
                 find_chat_by_participant(validated_participant[1], scan, fault), fault)

ListChatsCommand ==
    /\ pc = "store"
    /\ command_out.status = "none"
    /\ \E participant \in Participants, scan \in {"asc", "desc"},
          fault \in Faults \ {"file"} :
          \E run \in { list_chats_command(participant, scan, fault) } :
              /\ command_out' = run.out
              /\ find_out' = run.find
              /\ connections' = run.conns
    /\ UNCHANGED <<pc, zone, timeVars, decoderVars, storeVars, exportVars, htmlVars>>

\* the handles "ab", "A", "b", ... by rowid
HandleNames == <<<<97, 98>>, <<65>>, <<98>>, <<97, 95, 98>>, <<97, 120, 98>>>>

\* stores for the commands: they differ in the chats the handles are joined
\* to, and in the date of message 1 (10^12 seconds cannot be formatted)
CommandStores ==
    /\ \E menus \in [HandleRowids -> ChatMenus] :
          /\ handle = [h \in HandleRowids |-> HandleNames[h]]
          /\ chat_handle_join = { <<c, h>> \in ChatIds \X HandleRowids : c \in menus[h] }
    /\ \E date \in { <<0, 700000000>>, <<1000, 0>> } :
          message = [m \in MessageIds |->
                        [date |-> IF m = 1 THEN date ELSE <<0, 700000000 + m>>,
                         text |-> HI, attributedBody |-> NULL]]
    /\ chat_message_join = Joined([m \in MessageIds |-> {1}])
    /\ message_attachment_join = {}

InitCommand ==
    /\ pc = "store"
    /\ zone = "UTC"
    /\ ts = None
    /\ unix_ts = None
    /\ iso = <<>>
    /\ attributed_body = <<>>
    /\ loaded = NotLoaded
    /\ parser_out = NoOutcome
    /\ db_out = NoOutcome
    /\ chat = ChatIds
    /\ CommandStores
    /\ NoHtml
    /\ NotRun

NextCommand == ExportChatCommand \/ ExportAllCommand \/ ListChatsCommand

SpecCommand == InitCommand /\ [][NextCommand]_vars

(***************************************************************************)
(* C17: every store connection that an operation opens                     *)
(* (find_chat_by_participant, export_chat_to_csv,                          *)
(* export_all_chats_to_json) is closed by the time the operation ends, on  *)
(* every exit path: normal return, a query error, a conversion error or an *)
(* output-file error; no reachable end state leaves a connection open.     *)
(***************************************************************************)
C17_ConnectionsClosed == connections.closed = connections.opened

\* export_chat_to_csv was left by a ValueError after it had opened its
\* connection, the second of the command
C17_Witness ==
    /\ command_out.status = "ended"
    /\ csv_out.status = "raised"
    /\ csv_out.error = "ValueError"
    /\ connections.opened = 2

\* the operations a command has called
Called ==
    Cardinality({ out \in {<<"find", find_out>>, <<"csv", csv_out>>, <<"json", json_out>>} :
                      out[2].status # "none" })

C20_ChatSelection ==
    (/\ command_out.status = "ended"
     /\ command_out.command = "export_chat"
     /\ command_out.candidates # <<>>) =>
        LET candidates == command_out.candidates
            n == Len(candidates)
            c == command_out.choice
        IN  IF n = 1
            THEN /\ ~command_out.prompted
                 /\ command_out.selected = <<candidates[1]>>
                 /\ csv_out.status # "none"
                 /\ csv_out.chat_rowid = candidates[1].rowid
            ELSE /\ command_out.prompted
                 /\ IF c.kind = "int" /\ 1 <= c.value /\ c.value <= n
                    THEN /\ command_out.selected = <<candidates[c.value]>>
                         /\ csv_out.status # "none"
                         /\ csv_out.chat_rowid = candidates[c.value].rowid
                    ELSE /\ command_out.selected = None
                         /\ command_out.exit_code = 1
                         /\ csv_out.status = "none"

\* two candidates and the choice 0
C20_Witness ==
    /\ command_out.status = "ended"
    /\ command_out.command = "export_chat"
    /\ Len(command_out.candidates) = 2
    /\ command_out.choice = Typed(0)
    /\ command_out.exit_code = 1

(***************************************************************************)
(* HTMLExporter.  A path is the tuple of its components, "/" first for an  *)
(* absolute one; a location is an absolute path without "." and "..".      *)
(* The disk maps the locations of the files that exist to what the         *)
(* libraries make of them: the MIME type detect_mime_type sniffs, whether  *)
(* PIL decodes and re-encodes the file ("ok"), does so after piexif        *)
(* rejected its EXIF data ("exif") or raises ("fails"), and whether        *)
(* shutil.copy can copy it.  The name of an attachment goes with its path. *)
(***************************************************************************)
\* the attachments of one message handed to export_chat
MaxPaths == 2

HOME == <<"/", "home", "u">>
CWD == <<"/", "work">>
\* database.py:32, the attachment_path the exporter is constructed with
ATTACHMENT_ROOT == HOME \o <<"Library", "Messages", "Attachments">>

\* os.path.normpath
RECURSIVE Collapse(_, _)
Collapse(done, rest) ==
    IF rest = <<>> THEN done
    ELSE LET c == rest[1] IN
         IF c = "." \/ c = "" THEN Collapse(done, Tail(rest))
         ELSE IF c # ".." THEN Collapse(Append(done, c), Tail(rest))
         ELSE IF done # <<>> /\ done[Len(done)] = "/" THEN Collapse(done, Tail(rest))
         ELSE IF done # <<>> /\ done[Len(done)] # ".."
              THEN Collapse(SubSeq(done, 1, Len(done) - 1), Tail(rest))
              ELSE Collapse(Append(done, ".."), Tail(rest))

normpath(path) ==
    LET r == Collapse(<<>>, path) IN IF r = <<>> THEN <<".">> ELSE r

\* os.path.expanduser
expanduser(path) == IF path[1] = "~" THEN HOME \o Tail(path) ELSE path

\* os.path.join
PathJoin(a, b) == IF b[1] = "/" THEN b ELSE a \o b

\* the location the system resolves a path to, from the working directory
Location(path) == normpath(IF path[1] = "/" THEN path ELSE CWD \o path)

IsPrefix(a, b) == Len(a) <= Len(b) /\ SubSeq(b, 1, Len(a)) = a

IsDirectory(loc) ==
    \/ \E f \in DOMAIN disk : IsPrefix(loc, f) /\ loc # f
    \/ IsPrefix(loc, CWD) \/ IsPrefix(loc, ATTACHMENT_ROOT)

\* os.path.exists
Exists(path) == Location(path) \in DOMAIN disk \/ IsDirectory(Location(path))

\* line 101: original_path.startswith(("/", "../"))
Rejected(original_path) ==
    \/ original_path[1] = "/"
    \/ (original_path[1] = ".." /\ Len(original_path) > 1)

\* a resolution that takes the joined path without looking for it
resolve_unchecked(original_path) ==
    LET full_original_path == expanduser(original_path) IN
    IF Exists(full_original_path) THEN <<full_original_path>>
    ELSE <<PathJoin(ATTACHMENT_ROOT, original_path)>>

\* lines 104-109: the path as given, else joined under the attachment
\* root; None where neither exists
resolve(original_path) ==
    LET full_original_path == expanduser(original_path) IN
    IF Exists(full_original_path) THEN <<full_original_path>>
    ELSE IF Exists(PathJoin(ATTACHMENT_ROOT, original_path))
         THEN <<PathJoin(ATTACHMENT_ROOT, original_path)>>
         ELSE None

\* parsers.py:202-221 and what `file` says of a directory
Mime(loc) ==
    IF loc \in DOMAIN disk THEN disk[loc].mime
    ELSE IF IsDirectory(loc) THEN "inode/directory"
    ELSE "application/octet-stream"

\* the top-level category of a MIME type, the part before "/"
Category(mime) ==
    CASE mime \in {"image/jpeg", "image/png"}      -> "image"
      [] mime = "video/mp4"                        -> "video"
      [] mime = "audio/mpeg"                       -> "audio"
      [] mime \in {"application/pdf", "application/octet-stream"} -> "application"
      [] mime = "text/plain"                       -> "text"
      [] mime = "inode/directory"                  -> "inode"

\* a classification that puts every attachment under documents
SubDirDocuments(mime) == "documents"

\* lines 118-125: detected_mime_type.startswith("image/"), "video/", "audio/"
SubDir(mime) ==
    CASE Category(mime) = "image" -> "images"
      [] Category(mime) = "video" -> "videos"
      [] Category(mime) = "audio" -> "audio"
      [] OTHER                    -> "documents"

\* os.path.splitext(f"{message_id}_{name}") without the f"{message_id}_":
\* <<root, extension>>, split at the last dot of the name
SplitExt(name) ==
    CASE name = "a.jpg"     -> <<"a", ".jpg">>
      [] name = "a.png"     -> <<"a", ".png">>
      [] name = "b.pdf"     -> <<"b", ".pdf">>
      [] name = "gone.png"  -> <<"gone", ".png">>
      [] name = "notes.txt" -> <<"notes", ".txt">>
      [] name = "clip.mp4"  -> <<"clip", ".mp4">>
      [] name = "song.mp3"  -> <<"song", ".mp3">>
      [] name = ".."        -> <<".", ".">>
      [] OTHER              -> <<name, "">>

\* shutil.copy(full_original_path, new_attachment_path) succeeds
Copies(loc) == loc \in DOMAIN disk /\ disk[loc].copies

\* what _copy_attachment did: the dict it returned (None for {}), the
\* location it read, the file it created and how ("png" for the image
\* saved as PNG, "copy" for the bytes of the source), the directory it
\* made, and the exception it let through
Materialized(result, source, dest, how, made, error) ==
    [result |-> result, source |-> source, dest |-> dest, how |-> how,
     made |-> made, error |-> error]

NoResult == Materialized(None, None, None, "", None, "")

\* an image branch that gives up where the image cannot be processed
materialize_image_or_nothing(loc, new_attachment_path, made) ==
    IF disk[loc].decode \in {"ok", "exif"}
    THEN Materialized(<<[copied_path |-> new_attachment_path, mime |-> "image/png"]>>,
                      <<loc>>, <<new_attachment_path>>, "png", made, "")
    ELSE Materialized(None, <<loc>>, None, "", made, "")

\* lines 133-167: the image is saved as PNG, with its EXIF data or, where
\* piexif rejects them, without; where that fails the file is copied, and
\* where the copy fails too the result is {}
materialize_image(loc, new_attachment_path, made) ==
    IF disk[loc].decode \in {"ok", "exif"}
    THEN Materialized(<<[copied_path |-> new_attachment_path, mime |-> "image/png"]>>,
                      <<loc>>, <<new_attachment_path>>, "png", made, "")
    ELSE IF Copies(loc)
    THEN Materialized(<<[copied_path |-> new_attachment_path, mime |-> Mime(loc)]>>,
                      <<loc>>, <<new_attachment_path>>, "copy", made, "")
    ELSE Materialized(None, <<loc>>, None, "", made, "")

\* lines 111-175: the file at loc is copied under the output directory
copy_file(original_path, loc, message_id) ==
    LET mime  == Mime(loc)
        is_image == Category(mime) = "image"
        made  == <<<<"attachments", SubDir(mime)>>>>
        original_filename == SplitExt(original_path[Len(original_path)])
        \* the file f"{message_id}_{root}{ext}" of the directory dir, the
        \* extension being .png for an image
        new_attachment_path ==
            [dir |-> <<"attachments", SubDir(mime)>>, message_id |-> message_id,
             root |-> original_filename[1],
             ext |-> IF is_image THEN ".png" ELSE original_filename[2]]
    IN  IF is_image THEN materialize_image(loc, new_attachment_path, made)
        ELSE IF Copies(loc)
        THEN Materialized(<<[copied_path |-> new_attachment_path, mime |-> mime]>>,
                          <<loc>>, <<new_attachment_path>>, "copy", made, "")
        ELSE Materialized(None, <<loc>>, None, "", made,
                          IF loc \in DOMAIN disk THEN "PermissionError"
                          ELSE IF IsDirectory(loc) THEN "IsADirectoryError"
                          ELSE "FileNotFoundError")

\* lines 108-175: {} where the path resolves to nothing
copy_resolved(original_path, full_original_path, message_id) ==
    IF full_original_path = None THEN NoResult
    ELSE copy_file(original_path, Location(full_original_path[1]), message_id)

\* lines 101-175: {} for a normalized path that starts with "/" or "../"
copy_normalized(original_path, message_id) ==
    IF Rejected(original_path) THEN NoResult
    ELSE copy_resolved(original_path, resolve(original_path), message_id)

\* _copy_attachment(attachment_info, message_id), attachment_info["path"]
\* being path (<<>> for None and "")
_copy_attachment(path, message_id) ==
    IF path = <<>> THEN NoResult
    ELSE copy_normalized(normpath(path), message_id)

\* constants.py:119
REQUIRED_CHAT_KEYS == <<"rowid", "display_name", "chat_identifier", "participants">>

\* a validation that looks for the first required key only
_validate_chat_data_first_key(data) ==
    IF data = {} THEN FALSE
    ELSE REQUIRED_CHAT_KEYS[1] \in data

\* lines 61-70, chat_data being the set of the keys of the dict ({} for
\* None and for the empty dict)
_validate_chat_data(data) ==
    IF data = {} THEN FALSE
    ELSE \A k \in 1..Len(REQUIRED_CHAT_KEYS) : REQUIRED_CHAT_KEYS[k] \in data

\* the attachments of the messages in the order export_chat takes them:
\* <<message index, attachment index>>
Positions(messages) ==
    LET all == { <<i, j>> \in (1..Len(messages)) \X (1..MaxPaths) :
                     j <= Len(messages[i].attachments) }
    IN  OrderedRows(all, { p \in all \X all :
                              p[1][1] < p[2][1] \/ (p[1][1] = p[2][1] /\ p[1][2] < p[2][2]) })

\* a message without timestamp (None or "")
NoTimestamp == [date |-> "", time |-> ""]

\* lines 206-216: the group of a message; a timestamp is the ISO text, its
\* date and its time of day
DateKey(msg) == IF msg.timestamp = NoTimestamp THEN "No Date" ELSE msg.timestamp.date

\* a sort that puts the "No Date" key before the dates
DateRankNoDateFirst(key) ==
    CASE key = "No Date"    -> 1
      [] key = "2023-12-31" -> 2
      [] key = "2024-01-01" -> 3

\* line 219: sorted(messages_by_date.keys()), digits before letters
DateRank(key) ==
    CASE key = "2023-12-31" -> 1
      [] key = "2024-01-01" -> 2
      [] key = "No Date"    -> 3

\* a message dict as its holder sees it: the attachment dicts carry the
\* stored path, and copied_path and mime where they are results of
\* _copy_attachment
Entity(msg) ==
    [id |-> msg.id, timestamp |-> msg.timestamp,
     attachments |-> [j \in 1..Len(msg.attachments) |->
                         [path |-> msg.attachments[j], copied_path |-> None,
                          mime |-> ""]]]

\* a loop that works on the dict it was given: msg_copy = msg
msg_alias(i, n) == i

\* line 191, msg_copy = msg.copy(): the dicts of the n messages received are
\* the objects 1..n, and the copy of message i is a new object
msg_copy(i, n) == n + i

\* lines 190-199: the dicts of the caller after the loop.  Line 198 assigns
\* the list of copied attachments to msg_copy["attachments"] for every
\* message with attachments whose attachments were all handled.
received_after(messages, log) ==
    LET n == Len(messages)
        handled(i) ==
            /\ messages[i].attachments # <<>>
            /\ \A j \in 1..Len(messages[i].attachments) :
                  \E k \in 1..Len(log) : /\ log[k].position = <<i, j>>
                                         /\ log[k].outcome.error = ""
        copied(i) == LET mine == SelectSeq(log, LAMBDA e : e.position[1] = i
                                                        /\ e.outcome.result # None)
                     IN  [k \in 1..Len(mine) |->
                            [path |-> <<>>,
                             copied_path |-> <<mine[k].outcome.result[1].copied_path>>,
                             mime |-> mine[k].outcome.result[1].mime]]
        heap == [o \in 1..(2 * n) |->
                    LET i == IF o <= n THEN o ELSE o - n IN
                    IF \E w \in 1..n : handled(w) /\ msg_copy(w, n) = o
                    THEN [Entity(messages[i]) EXCEPT !.attachments = copied(i)]
                    ELSE Entity(messages[i])]
    IN  [i \in 1..n |-> heap[i]]

\* lines 189-199: what _copy_attachment did for the attachments in turn, up
\* to the first exception it let through
attachment_log(messages, positions) ==
    LET done(k) == _copy_attachment(messages[positions[k][1]].attachments[positions[k][2]],
                                    messages[positions[k][1]].id)
        failed == { k \in 1..Len(positions) : done(k).error # "" }
        last   == IF failed = {} THEN Len(positions)
                  ELSE CHOOSE k \in failed : \A j \in failed : k <= j
    IN  [k \in 1..last |->
            [position |-> positions[k],
             path |-> messages[positions[k][1]].attachments[positions[k][2]],
             outcome |-> done(k)]]

\* lines 183-230: the export of a valid chat, log being what was done for
\* its attachments
export_page(messages, log) ==
    LET last   == Len(log)
        failed == last > 0 /\ log[last].outcome.error # ""
        copied(i) == LET mine == SelectSeq(log, LAMBDA e : e.position[1] = i
                                                        /\ e.outcome.result # None)
                     IN  [k \in 1..Len(mine) |-> mine[k].outcome.result[1]]
        processed == [i \in 1..Len(messages) |->
                         [id |-> messages[i].id, timestamp |-> messages[i].timestamp,
                          attachments |-> copied(i)]]
        keys    == { DateKey(processed[i]) : i \in 1..Len(processed) }
        sorted_dates == OrderedRows(keys, { p \in keys \X keys :
                                               DateRank(p[1]) < DateRank(p[2]) })
        messages_by_date ==
            [d \in 1..Len(sorted_dates) |->
                [date |-> sorted_dates[d],
                 messages |-> SelectSeq(processed,
                                  LAMBDA m : DateKey(m) = sorted_dates[d])]]
        created == { log[k].outcome.dest[1] :
                        k \in { k \in 1..last : log[k].outcome.dest # None } }
        \* a file written twice holds what was written last
        contents == [f \in created |->
                       LET k == CHOOSE k \in 1..last :
                                    /\ log[k].outcome.dest = <<f>>
                                    /\ \A j \in (k + 1)..last : log[j].outcome.dest # <<f>>
                       IN  [source |-> log[k].outcome.source[1],
                            how |-> log[k].outcome.how]]
        made    == { log[k].outcome.made[1] :
                        k \in { k \in 1..last : log[k].outcome.made # None } }
    IN  [status |-> IF failed THEN "raised" ELSE "written",
         error |-> IF failed THEN log[last].outcome.error ELSE "",
         dirs |-> {<<>>, <<"styles">>, <<"attachments">>} \cup made,
         stylesheet |-> TRUE, log |-> log, files |-> created, contents |-> contents,
         page |-> IF failed THEN <<>> ELSE messages_by_date,
         received |-> received_after(messages, log)]

\* export_chat(chat_data, messages)
export_chat(data, messages) ==
    IF ~_validate_chat_data(data)
    THEN [status |-> "raised", error |-> "ValueError", dirs |-> {},
          stylesheet |-> FALSE, log |-> <<>>, files |-> {}, contents |-> <<>>,
          page |-> <<>>, received |-> received_after(messages, <<>>)]
    ELSE export_page(messages, attachment_log(messages, Positions(messages)))

ExportChat ==
    /\ pc = "html"
    /\ html_out.status = "none"
    /\ html_out' = export_chat(chat_data, html_messages)
    /\ UNCHANGED <<pc, zone, timeVars, decoderVars, storeVars, exportVars, runVars,
                   chat_data, html_messages, disk>>

\* stored attachment paths: an image and a document of the attachment
\* tree, a file that is nowhere, an absolute path, two paths that climb
\* out with "..", a file of the home directory outside the tree, a file of
\* the working directory, the parent directory, and no path
P_IMAGE == <<"~", "Library", "Messages", "Attachments", "a.jpg">>
P_DOCUMENT == <<"b.pdf">>
P_GONE == <<"gone.png">>
P_ABSOLUTE == <<"/", "etc", "passwd">>
P_PARENT_FILE == <<"..", "secret">>
P_NESTED == <<"sub", "..", "..", "secret">>
P_HOME == <<"~", ".ssh", "id_rsa">>
P_WORKING == <<"notes.txt">>
P_PARENT == <<"..">>

AttachmentPaths ==
    { P_IMAGE, P_DOCUMENT, P_GONE, P_ABSOLUTE, P_PARENT_FILE, P_NESTED, P_HOME,
      P_WORKING, P_PARENT, <<>> }

\* the files that exist
Files(decode, image_copies, document_copies) ==
    (ATTACHMENT_ROOT \o <<"a.jpg">>) :>
        [mime |-> "image/jpeg", decode |-> decode, copies |-> image_copies]
    @@ (ATTACHMENT_ROOT \o <<"b.pdf">>) :>
        [mime |-> "application/pdf", decode |-> "fails", copies |-> document_copies]
    @@ (HOME \o <<".ssh", "id_rsa">>) :>
        [mime |-> "text/plain", decode |-> "fails", copies |-> TRUE]
    @@ (CWD \o <<"notes.txt">>) :>
        [mime |-> "text/plain", decode |-> "fails", copies |-> TRUE]
    @@ <<"/", "etc", "passwd">> :>
        [mime |-> "text/plain", decode |-> "fails", copies |-> TRUE]
    @@ <<"/", "secret">> :>
        [mime |-> "text/plain", decode |-> "fails", copies |-> TRUE]

Disks ==
    { Files(decode, copies, TRUE) : decode \in {"ok", "exif", "fails"}, copies \in BOOLEAN }
    \cup { Files("ok", TRUE, FALSE) }

\* the paths of the attachments of one message
PathLists == UNION { [1..n -> AttachmentPaths] : n \in 0..MaxPaths }

AllChatKeys == { REQUIRED_CHAT_KEYS[k] : k \in 1..Len(REQUIRED_CHAT_KEYS) }

\* message 1 with the attachments, message 2 with the document
Messages(paths, timestamp) ==
    <<[id |-> 1, timestamp |-> [date |-> "2024-01-01", time |-> "10:00:00"],
       attachments |-> paths],
      [id |-> 2, timestamp |-> timestamp, attachments |-> <<P_DOCUMENT>>]>>

\* exports that differ in the attachments and in the files
AttachmentExports ==
    /\ chat_data = AllChatKeys \cup {"guid"}
    /\ disk \in Disks
    /\ \E paths \in PathLists,
          timestamp \in {NoTimestamp, [date |-> "2023-12-31", time |-> "23:59:00"]} :
          html_messages = Messages(paths, timestamp)

\* exports that differ in the keys of the chat dict
ChatDataExports ==
    /\ chat_data \in SUBSET (AllChatKeys \cup {"guid"})
    /\ disk = Files("ok", TRUE, TRUE)
    /\ html_messages = Messages(<<P_IMAGE>>, NoTimestamp)

\* stored paths of media files: two images that differ in the extension,
\* an image of the same name in a subdirectory, a video, a sound and an
\* image without extension
N_JPG == <<"a.jpg">>
N_PNG == <<"a.png">>
N_SUB == <<"x", "a.jpg">>
N_VIDEO == <<"clip.mp4">>
N_AUDIO == <<"song.mp3">>
N_PHOTO == <<"photo">>

NamePaths == { N_JPG, N_PNG, N_SUB, N_VIDEO, N_AUDIO, N_PHOTO }

\* the media files of the attachment tree
MediaFiles ==
    [f \in { ATTACHMENT_ROOT \o q : q \in NamePaths \cup {P_DOCUMENT} } |->
        [mime |-> CASE f = ATTACHMENT_ROOT \o N_PNG      -> "image/png"
                    [] f = ATTACHMENT_ROOT \o N_VIDEO    -> "video/mp4"
                    [] f = ATTACHMENT_ROOT \o N_AUDIO    -> "audio/mpeg"
                    [] f = ATTACHMENT_ROOT \o P_DOCUMENT -> "application/pdf"
                    [] OTHER                             -> "image/jpeg",
         decode |-> "ok", copies |-> TRUE]]

\* exports that differ in the names and types of the attachments
NameExports ==
    /\ chat_data = AllChatKeys
    /\ disk = MediaFiles
    /\ \E paths \in UNION { [1..n -> NamePaths] : n \in 1..MaxPaths } :
          html_messages = Messages(paths, NoTimestamp)

InitHtml ==
    /\ pc = "html"
    /\ zone = "UTC"
    /\ ts = None
    /\ unix_ts = None
    /\ iso = <<>>
    /\ attributed_body = <<>>
    /\ loaded = NotLoaded
    /\ parser_out = NoOutcome
    /\ db_out = NoOutcome
    /\ chat = {}
    /\ message = <<>>
    /\ chat_message_join = {}
    /\ message_attachment_join = {}
    /\ handle = <<>>
    /\ chat_handle_join = {}
    /\ (AttachmentExports \/ ChatDataExports \/ NameExports)
    /\ NotRun

NextHtml == ExportChat

SpecHtml == InitHtml /\ [][NextHtml]_vars

\* a stored path that exists neither as given nor under the attachment root
Missing(path) ==
    /\ path # <<>>
    /\ ~Exists(expanduser(normpath(path)))
    /\ ~Exists(PathJoin(ATTACHMENT_ROOT, normpath(path)))

\* the attachments rendered for a message of the page
Rendered(id) ==
    LET d == CHOOSE d \in 1..Len(html_out.page) :
                 \E k \in 1..Len(html_out.page[d].messages) :
                     html_out.page[d].messages[k].id = id
        k == CHOOSE k \in 1..Len(html_out.page[d].messages) :
                 html_out.page[d].messages[k].id = id
    IN  html_out.page[d].messages[k].attachments

Outside(path) ==
    /\ path # <<>>
    /\ \/ path[1] = "/"
       \/ \E k \in 1..Len(path) : path[k] = ".."
       \/ (path[1] = "~" /\ ~IsPrefix(ATTACHMENT_ROOT, Location(expanduser(path))))

(***************************************************************************)
(* C14: for every stored attachment path, the source file that             *)
(* _copy_attachment reads lies inside the attachment root; a path that     *)
(* contains traversal sequences or is rooted outside the attachment tree   *)
(* (absolute, '..'-relative, or home-relative to a location outside the    *)
(* tree) is rejected with no result and nothing is copied.                 *)
(***************************************************************************)
C14_InsideAttachmentRoot ==
    html_out.status \in {"written", "raised"} =>
        \A k \in 1..Len(html_out.log) :
            LET e == html_out.log[k] IN
            /\ e.outcome.source # None => IsPrefix(ATTACHMENT_ROOT, e.outcome.source[1])
            /\ Outside(e.path) =>
                  /\ e.outcome.result = None
                  /\ e.outcome.source = None
                  /\ e.outcome.dest = None

\* an attachment sniffed as an image that PIL cannot process
ImageFailure(e) ==
    /\ e.outcome.source # None
    /\ e.outcome.source[1] \in DOMAIN disk
    /\ SubDir(Mime(e.outcome.source[1])) = "images"
    /\ disk[e.outcome.source[1]].decode = "fails"

\* the file was created as a copy of the source
ByteCopy(e) ==
    /\ e.outcome.dest # None
    /\ e.outcome.dest[1] \in html_out.files
    /\ html_out.contents[e.outcome.dest[1]] =
          [source |-> e.outcome.source[1], how |-> "copy"]

(***************************************************************************)
(* C15, as claimed: for an attachment sniffed as an image, any failure     *)
(* while decoding, rotating or re-encoding it makes the materializer fall  *)
(* back to a byte-for-byte copy of the original file and still return a    *)
(* result; the failure never propagates out of the export.                 *)
(***************************************************************************)
C15_AlwaysResult ==
    html_out.status \in {"written", "raised"} =>
        \A k \in 1..Len(html_out.log) :
            ImageFailure(html_out.log[k]) =>
                /\ html_out.log[k].outcome.error = ""
                /\ html_out.log[k].outcome.result # None
                /\ ByteCopy(html_out.log[k])

(***************************************************************************)
(* C15, amended: for an attachment sniffed as an image, any failure while  *)
(* decoding, rotating or re-encoding it makes the materializer fall back   *)
(* to a byte-for-byte copy of the original file; it returns a result when  *)
(* that copy succeeds and the "no result" value, with no destination file, *)
(* when the copy fails as well; the failure never propagates out of the    *)
(* export.                                                                 *)
(***************************************************************************)
C15_FallbackCopy ==
    html_out.status \in {"written", "raised"} =>
        \A k \in 1..Len(html_out.log) :
            LET e == html_out.log[k] IN
            ImageFailure(e) =>
                /\ e.outcome.error = ""
                /\ Copies(e.outcome.source[1]) =>
                      (e.outcome.result # None /\ ByteCopy(e))
                /\ ~Copies(e.outcome.source[1]) =>
                      (e.outcome.result = None /\ e.outcome.dest = None)

\* the image could not be processed, was copied and is on the page
C15_Witness ==
    /\ html_out.status = "written"
    /\ html_messages[1].attachments = <<P_IMAGE>>
    /\ ImageFailure(html_out.log[1])
    /\ Len(Rendered(1)) = 1

(***************************************************************************)
(* C16: export_chat refuses to proceed when the chat record lacks any of   *)
(* the four identity fields (rowid, display_name, chat_identifier,         *)
(* participants): it fails with a validation error, and on that failure it *)
(* has created no output directory, copied no stylesheet or attachment and *)
(* written no page.                                                        *)
(***************************************************************************)
C16_RefusesIncompleteChat ==
    (html_out.status # "none" /\ ~(AllChatKeys \subseteq chat_data)) =>
        /\ html_out.status = "raised"
        /\ html_out.error = "ValueError"
        /\ html_out.dirs = {}
        /\ ~html_out.stylesheet
        /\ html_out.files = {}
        /\ html_out.log = <<>>
        /\ html_out.page = <<>>

\* the chat record lacks participants only
C16_Witness ==
    /\ html_out.status = "raised"
    /\ chat_data = AllChatKeys \ {"participants"}

(***************************************************************************)
(* C24: a broken attachment reference never ends export_chat: whatever the *)
(* attachment records are (a path that is missing, that points to a        *)
(* directory, that cannot be read or that fails to copy, for images and    *)
(* for other types), the export of a valid chat completes and writes the   *)
(* page, and no attachment lets an exception through.                      *)
(***************************************************************************)
C24_NeverAborts ==
    (html_out.status # "none" /\ AllChatKeys \subseteq chat_data) =>
        /\ html_out.status = "written"
        /\ \A k \in 1..Len(html_out.log) : html_out.log[k].outcome.error = ""

\* the top-level categories that have a directory of their own
OwnDirectory ==
    [image |-> "images", video |-> "videos", audio |-> "audio"]

(***************************************************************************)
(* C25: the file an attachment is materialized to is named                 *)
(* {message_id}_{original file name}, with the extension replaced by .png  *)
(* when the attachment is sniffed as an image; it lies directly in exactly *)
(* one of attachments/images, attachments/videos, attachments/audio and    *)
(* attachments/documents, chosen by the top-level category of the sniffed  *)
(* type, documents by default; the returned path is that file, and the     *)
(* same stored path and message id always give the same path.              *)
(***************************************************************************)
C25_DeterministicName ==
    html_out.status \in {"written", "raised"} =>
        /\ \A k \in 1..Len(html_out.log) :
              LET e    == html_out.log[k]
                  path == normpath(e.path)
                  name == SplitExt(path[Len(path)])
                  top  == Category(Mime(e.outcome.source[1]))
                  dest == e.outcome.dest[1]
              IN  e.outcome.dest # None =>
                      /\ dest.message_id = html_messages[e.position[1]].id
                      /\ dest.root = name[1]
                      /\ dest.ext = IF top = "image" THEN ".png" ELSE name[2]
                      /\ dest.dir = <<"attachments",
                                      IF top \in DOMAIN OwnDirectory
                                      THEN OwnDirectory[top] ELSE "documents">>
                      /\ e.outcome.result # None => e.outcome.result[1].copied_path = dest
        /\ \A k, j \in 1..Len(html_out.log) :
              (/\ html_out.log[k].path = html_out.log[j].path
               /\ html_out.log[k].position[1] = html_out.log[j].position[1])
                  => html_out.log[k].outcome.dest = html_out.log[j].outcome.dest

\* message 1 has a JPEG and a video: the JPEG is 1_a.png under images, the
\* video 1_clip.mp4 under videos
C25_Witness ==
    /\ html_out.status = "written"
    /\ html_messages[1].attachments = <<N_JPG, N_VIDEO>>
    /\ html_out.log[1].outcome.dest =
          <<[dir |-> <<"attachments", "images">>, message_id |-> 1,
             root |-> "a", ext |-> ".png"]>>
    /\ html_out.log[2].outcome.dest =
          <<[dir |-> <<"attachments", "videos">>, message_id |-> 1,
             root |-> "clip", ext |-> ".mp4"]>>

(***************************************************************************)
(* C26: export_chat does not change what it receives: after it has         *)
(* returned or raised, every message passed in, its attachments list and   *)
(* every attachment record are as they were; the materialized paths and    *)
(* MIME types are found in the copies made for the page only.              *)
(***************************************************************************)
C26_InputsUnchanged ==
    html_out.status \in {"written", "raised"} =>
        /\ html_out.received = [i \in 1..Len(html_messages) |-> Entity(html_messages[i])]
        /\ \A i \in 1..Len(html_out.received) :
              \A j \in 1..Len(html_out.received[i].attachments) :
                  /\ html_out.received[i].attachments[j].copied_path = None
                  /\ html_out.received[i].attachments[j].mime = ""

\* the page shows a materialized attachment of message 1, whose stored
\* attachment list holds a missing file as well
C26_Witness ==
    /\ html_out.status = "written"
    /\ html_messages[1].attachments = <<P_GONE, P_DOCUMENT>>
    /\ Len(Rendered(1)) = 1
    /\ Len(html_out.received[1].attachments) = 2

\* the calendar day of a date key: <<year, month, day>>
CalendarDay(key) ==
    CASE key = "2023-12-31" -> <<2023, 12, 31>>
      [] key = "2024-01-01" -> <<2024, 1, 1>>

DayBefore(a, b) ==
    \/ a[1] < b[1]
    \/ (a[1] = b[1] /\ a[2] < b[2])
    \/ (a[1] = b[1] /\ a[2] = b[2] /\ a[3] < b[3])

\* every message is in exactly one group of the page, the group of the
\* date of its timestamp or "No Date", and the dated groups ascend
GroupedByDate ==
    /\ \A i \in 1..Len(html_messages) :
          LET msg == html_messages[i]
              at  == { <<d, k>> \in (1..Len(html_out.page)) \X (1..Len(html_messages)) :
                          /\ k <= Len(html_out.page[d].messages)
                          /\ html_out.page[d].messages[k].id = msg.id }
          IN  /\ Cardinality(at) = 1
              /\ \A p \in at :
                    html_out.page[p[1]].date =
                        IF msg.timestamp = NoTimestamp THEN "No Date"
                        ELSE msg.timestamp.date
    /\ \A d, e \in 1..Len(html_out.page) :
          (d < e /\ html_out.page[d].date # "No Date" /\ html_out.page[e].date # "No Date")
              => DayBefore(CalendarDay(html_out.page[d].date),
                           CalendarDay(html_out.page[e].date))

(***************************************************************************)
(* C27, as claimed: in the page export_chat writes every message is in     *)
(* exactly one group, the calendar date of its ISO timestamp or "No Date"  *)
(* when it has no timestamp; the dated groups are in ascending date order  *)
(* and the "No Date" group comes before all dated groups.                  *)
(***************************************************************************)
C27_NoDateFirst ==
    html_out.status = "written" =>
        /\ GroupedByDate
        /\ \A d \in 1..Len(html_out.page) : html_out.page[d].date = "No Date" => d = 1

(***************************************************************************)
(* C27, amended: in the page export_chat writes every message is in        *)
(* exactly one group, the calendar date of its ISO timestamp or "No Date"  *)
(* when it has no timestamp; the dated groups are in ascending date order  *)
(* and the "No Date" group comes after all dated groups.                   *)
(***************************************************************************)
C27_NoDateLast ==
    html_out.status = "written" =>
        /\ GroupedByDate
        /\ \A d \in 1..Len(html_out.page) :
              html_out.page[d].date = "No Date" => d = Len(html_out.page)

\* message 1 is dated and message 2 has no timestamp: the page is the
\* group of 2024-01-01 followed by the group "No Date"
C27_Witness ==
    /\ html_out.status = "written"
    /\ Len(html_out.page) = 2
    /\ html_out.page[1].date = "2024-01-01"
    /\ html_out.page[2].date = "No Date"
    /\ html_out.page[2].messages[1].id = 2

\* what tells the attachments of one export apart: the message id, the
\* stored path and the sniffed type of a materialized attachment
AttachmentKey(e) ==
    <<html_messages[e.position[1]].id, e.path, Mime(e.outcome.source[1])>>

(***************************************************************************)
(* C29: within one export_chat two distinct attachments are never          *)
(* materialized to the same destination file: attachments that differ in   *)
(* the message id, the stored path or the sniffed type have different      *)
(* destination paths, also when they are two attachments of one message    *)
(* with the same file name in different directories, or two images whose   *)
(* names differ in the extension only.                                     *)
(***************************************************************************)
C29_DistinctDestinations ==
    html_out.status \in {"written", "raised"} =>
        \A k, j \in 1..Len(html_out.log) :
            (/\ html_out.log[k].outcome.dest # None
             /\ html_out.log[j].outcome.dest # None
             /\ AttachmentKey(html_out.log[k]) # AttachmentKey(html_out.log[j]))
                => html_out.log[k].outcome.dest # html_out.log[j].outcome.dest
====
